---- MODULE Spec2Model ----
(***************************************************************************)
(* Model of the tile cache of rod-animation (src/src/map/cache.rs,         *)
(* src/src/map.rs, src/src/main.rs): the two-tier MvtGetter, its startup   *)
(* scan of the cache directory, the write-locked loader of World, the      *)
(* validity query of TileDescr, the choice of zoom levels and tiles for a  *)
(* view, the style classifier and the winding repair of areas.             *)
(***************************************************************************)
EXTENDS Integers, Sequences, FiniteSets, TLC

VARIABLES
    disk,        \* cache directory: file name -> content, or Absent
    getter,      \* "none" | "live" | "err_io" | "err_parse" | "panic"
    file_cache,  \* MvtGetter.file_cache : HashSet<TileDescr>
    mem_cache,   \* MvtGetter.mem_cache  : HashMap<TileDescr, MapData>
    last,        \* record of the most recent load_tile / get_tile call
    batch,       \* progress of the running / last load_tiles call
    loaded,      \* addresses whose load_tile returned Ok on this getter
    served,      \* addresses whose load_tile returned Ok on any getter so far
    lock,        \* the RwLock around the getter: who holds it, and how
    wpc,         \* per worker: position inside load_tiles_at
    wjob,        \* per worker: addresses still to load in this call
    rpc,         \* per renderer: position inside render_background
    fetches,     \* per address: the workers whose fetch ended in a loaded tile
    received,    \* per address: 2xx responses received so far (saturating)
    vin,         \* input of TileDescr::valid
    vout,        \* its outcome
    scene,       \* the ScenePos handed to get_tiles_at / get_tiles_fixed
    chosen,      \* what that call returned
    fade,        \* the opacities render_background draws the levels with
    sorter,      \* the LayerSorter of one layer of the style
    feat,        \* a feature's property map and the zoom of its tile
    style,       \* what LayerSorter::apply returned for it
    area,        \* an Area built by convert_polygon
    wound,       \* progress and report of enforce_winding on it
    geom,        \* a feature's geometry as the tile carries it, and the extent
    conv,        \* the paths and areas convert_geometry made of it
    payload,     \* the names of the layers of a tile payload, in its order
    sorters,     \* SORTERS: the style list after retain_non_empty
    mapdata,     \* what MapData::from_reader built from the payload
    frames,      \* per frame of a video: what get_tiles_at returns for it
    video,       \* position and outcome of make_video
    rjob,        \* per render thread: position inside Frame::render
    inputs,      \* the input directory: path -> content of the file
    hashes,      \* FILE_HASHES: path -> hash recorded for it, if any
    outputs,     \* the output files that exist
    loop,        \* position of main inside its loop
    seen         \* per path: what the loop last did with it

cacheVars == <<disk, getter, file_cache, mem_cache, last, batch, loaded, served>>
worldVars == <<lock, wpc, wjob, rpc, fetches, received>>
validVars == <<vin, vout>>
selVars == <<scene, chosen, fade>>
clsVars == <<sorter, feat, style>>
windVars == <<area, wound>>
convVars == <<geom, conv>>
layerVars == <<payload, sorters, mapdata>>
videoVars == <<frames, video, rjob>>
mainVars == <<inputs, hashes, outputs, loop, seen>>
stillVars == <<validVars, selVars, clsVars, windVars, convVars, layerVars,
               mainVars>>
otherVars == <<convVars, layerVars, videoVars, mainVars>>
pureVars == <<validVars, selVars, clsVars, windVars, otherVars>>
vars == <<disk, getter, file_cache, mem_cache, last, batch, loaded, served,
          lock, wpc, wjob, rpc, fetches, received, vin, vout,
          scene, chosen, fade, sorter, feat, style, area, wound,
          geom, conv, payload, sorters, mapdata, frames, video, rjob,
          inputs, hashes, outputs, loop, seen>>

(***************************************************************************)
(* Bounds of the model.                                                    *)
(***************************************************************************)
MaxBatch == 2      \* longest slice handed to load_tiles
NumWorkers == 2    \* threads calling World::load_tiles_at
NumRenderers == 1  \* threads calling Frame::render_background
NumThreads == 2    \* threads of the pool that renders the frames of a video
MaxFrames == 2     \* most frames of a video
MaxLevel == 1      \* most addresses get_tiles_at returns for one level
CountCap == 2      \* where the counters of fetches stop counting

(***************************************************************************)
(* Text: a string is a sequence of one-character strings.                  *)
(***************************************************************************)
Digits == <<"0", "1", "2", "3", "4", "5", "6", "7", "8", "9">>

DigitVal(c) == (CHOOSE i \in 1..10 : Digits[i] = c) - 1

IsDigit(c) == \E i \in 1..10 : Digits[i] = c

\* u32 Display: decimal, no sign, no padding.
RECURSIVE FmtU32(_)
FmtU32(n) ==
    IF n < 10 THEN <<Digits[n + 1]>>
    ELSE FmtU32(n \div 10) \o <<Digits[(n % 10) + 1]>>

\* str::split(c): the fields between the separators; "" gives one empty field.
RECURSIVE SplitOn(_, _)
SplitOn(s, c) ==
    IF \A i \in 1..Len(s) : s[i] # c THEN <<s>>
    ELSE LET k == CHOOSE i \in 1..Len(s) :
                      s[i] = c /\ \A j \in 1..(i - 1) : s[j] # c
         IN <<SubSeq(s, 1, k - 1)>> \o SplitOn(SubSeq(s, k + 1, Len(s)), c)

ParseErr == -1

\* The digits of a u32 literal, most significant first; ParseErr on overflow
\* (acc * 10 + d > 4294967295).  Fields of the modelled names stay below 2^31.
RECURSIVE ParseDigits(_, _)
ParseDigits(s, acc) ==
    IF s = <<>> THEN acc
    ELSE IF ~IsDigit(Head(s)) THEN ParseErr
    ELSE IF acc > 429496729 \/ (acc = 429496729 /\ DigitVal(Head(s)) > 5)
         THEN ParseErr
    ELSE ParseDigits(Tail(s), acc * 10 + DigitVal(Head(s)))

\* str::parse::<u32>: an optional "+", then at least one digit, digits only.
ParseU32(s) ==
    LET body == IF s # <<>> /\ Head(s) = "+" THEN Tail(s) ELSE s
    IN IF body = <<>> THEN ParseErr ELSE ParseDigits(body, 0)

\* Path::extension: what follows the last "." of the file name; none when
\* there is no "." or the only one starts the name.
NoExt == <<"?">>

Extension(name) ==
    LET dots == {i \in 1..Len(name) : name[i] = "."}
    IN IF dots = {} THEN NoExt
       ELSE LET k == CHOOSE i \in dots : \A j \in dots : j <= i
            IN IF k = 1 THEN NoExt ELSE SubSeq(name, k + 1, Len(name))

MvtExt == <<"m", "v", "t">>

(***************************************************************************)
(* TileDescr (src/src/map.rs).                                             *)
(***************************************************************************)
TileDescr(z, x, y) == [z |-> z, x |-> x, y |-> y]

\* format!("{}_{}_{}.mvt", self.z, self.x, self.y).
to_file_name(t) ==
    FmtU32(t.z) \o <<"_">> \o FmtU32(t.x) \o <<"_">> \o FmtU32(t.y)
        \o <<".">> \o MvtExt

\* The addresses the model loads.
Tiles == {TileDescr(7, 66, 44), TileDescr(76, 6, 44)}

\* File names of the cache directory that no address of Tiles produces.
JunkShort == <<"7", "_", "6", "6", ".", "m", "v", "t">>        \* two fields only
JunkAlpha == <<"x", "_", "0", "_", "0", ".", "m", "v", "t">>   \* not a number
JunkTxt == <<"a", ".", "t", "x", "t">>                         \* another extension

JunkNames == {JunkShort, JunkAlpha, JunkTxt}

\* TileDescr::to_path, the cache directory left implicit.
to_path == [t \in Tiles |-> to_file_name(t)]

Names == {to_path[t] : t \in Tiles} \cup JunkNames

(***************************************************************************)
(* File contents and tile payloads.  "mvtA" and "mvtB" are payloads that   *)
(* mvt_reader and MapData::from_reader accept, "junk" is one they reject   *)
(* (also what a partly written file holds).                                *)
(***************************************************************************)
Absent == "absent"
GoodPayloads == {"mvtA", "mvtB"}
Payloads == GoodPayloads \cup {"junk"}

\* mvt_reader::Reader::new followed by MapData::from_reader: whether they
\* return Ok, and the MapData they build then.
Decodes(bytes) == bytes \in GoodPayloads

Decode(tile, bytes) == [descr |-> tile, layers |-> bytes]

(***************************************************************************)
(* MvtGetter::new: the scan of the cache directory.                        *)
(***************************************************************************)
\* The scan with the column and the row taken from each other's field.
ScanEntrySwapped(name) ==
    IF Extension(name) # MvtExt THEN [kind |-> "skip", tile |-> [z |-> 0, x |-> 0, y |-> 0]]
    ELSE LET split == SplitOn(Head(SplitOn(name, ".")), "_")
         IN IF Len(split) < 3 \/ \E i \in 1..3 : ParseU32(split[i]) = ParseErr
            THEN [kind |-> "err", tile |-> [z |-> 0, x |-> 0, y |-> 0]]
            ELSE [kind |-> "tile",
                  tile |-> [z |-> ParseU32(split[1]), x |-> ParseU32(split[3]),
                            y |-> ParseU32(split[2])]]

\* One directory entry: kind "skip", "err" (parse()? returned), "panic"
\* (unwrap of a missing field) or "tile" with the address to insert.
Scanned(kind, z, x, y) == [kind |-> kind, tile |-> TileDescr(z, x, y)]

ScanEntry(name) ==
    IF Extension(name) # MvtExt THEN Scanned("skip", 0, 0, 0)
    ELSE LET split == SplitOn(Head(SplitOn(name, ".")), "_")
             z == ParseU32(split[1])
         IN IF z = ParseErr THEN Scanned("err", 0, 0, 0)
            ELSE IF Len(split) < 2 THEN Scanned("panic", 0, 0, 0)
            ELSE IF ParseU32(split[2]) = ParseErr THEN Scanned("err", 0, 0, 0)
            ELSE IF Len(split) < 3 THEN Scanned("panic", 0, 0, 0)
            ELSE IF ParseU32(split[3]) = ParseErr THEN Scanned("err", 0, 0, 0)
            ELSE Scanned("tile", z, ParseU32(split[2]), ParseU32(split[3]))

\* The directory is a function from the names present to their contents.
Present(d) == DOMAIN d

ReadFile(d, n) == IF n \in DOMAIN d THEN d[n] ELSE Absent

WriteFile(d, n, bytes) == [m \in DOMAIN d \cup {n} |-> IF m = n THEN bytes ELSE d[m]]

\* The entries that end the scan early; read_dir yields them in no fixed order.
ScanFailures(d) == {n \in Present(d) : ScanEntry(n).kind \in {"err", "panic"}}

ScanTiles(d) ==
    {ScanEntry(n).tile : n \in {m \in Present(d) : ScanEntry(m).kind = "tile"}}

NoCall == [op |-> "none", tile |-> TileDescr(0, 0, 0), res |-> "none",
           how |-> "none", fail |-> "none", net |-> 0, reads |-> 0,
           writes |-> 0, status |-> 0, body |-> "none", rep |-> FALSE,
           read |-> "none"]

NoBatch == [tiles |-> <<>>, log |-> <<>>, res |-> "idle"]

EmptyMem == [t \in {} |-> [descr |-> t, layers |-> "none"]]

\* MvtGetter::new.  ioOk: fs::exists, create_dir and read_dir all succeed.
New(ioOk) ==
    /\ getter = "none"
    /\ \/ /\ ~ioOk
          /\ getter' = "err_io"
          /\ file_cache' = {}
       \/ /\ ioOk
          /\ ScanFailures(disk) = {}
          /\ getter' = "live"
          /\ file_cache' = ScanTiles(disk)
       \/ /\ ioOk
          /\ \E n \in ScanFailures(disk) :
                getter' = IF ScanEntry(n).kind = "err" THEN "err_parse" ELSE "panic"
          /\ file_cache' = {}
    /\ mem_cache' = EmptyMem
    /\ last' = NoCall
    /\ batch' = NoBatch
    /\ loaded' = {}
    /\ UNCHANGED <<disk, served>>

\* drop(getter): the caches go, the directory stays.
Drop ==
    /\ getter = "live"
    /\ batch.res # "run"
    /\ getter' = "none"
    /\ file_cache' = {}
    /\ mem_cache' = EmptyMem
    /\ last' = NoCall
    /\ batch' = NoBatch
    /\ loaded' = {}
    /\ UNCHANGED <<disk, served>>

(***************************************************************************)
(* MvtGetter::load_tile, in two halves: up to the network request, and     *)
(* from the request on.                                                    *)
(***************************************************************************)
Insert(mem, t, data) == [u \in DOMAIN mem \cup {t} |-> IF u = t THEN data ELSE mem[u]]

\* try_load_from_file: fs::read and the decode both succeed.
\* readOk: the read of an existing file meets no I/O error.
FileLoads(d, t, readOk) ==
    /\ to_path[t] \in DOMAIN d
    /\ readOk
    /\ Decodes(d[to_path[t]])

\* load_tile without its first test (lines 74-76): every call goes to the tiers.
LoadPreNoMemHit(fc, mem, d, t, readOk) ==
    IF t \in fc /\ FileLoads(d, t, readOk)
    THEN [how |-> "disk", fc |-> fc,
          mem |-> Insert(mem, t, Decode(t, d[to_path[t]])), reads |-> 1]
    ELSE [how |-> "miss", fc |-> fc \ {t}, mem |-> mem,
          reads |-> IF t \in fc THEN 1 ELSE 0]

\* load_tile without its disk tier (lines 77-86).
LoadPreSkipsDisk(fc, mem, d, t, readOk) ==
    IF t \in DOMAIN mem
    THEN [how |-> "mem", fc |-> fc, mem |-> mem, reads |-> 0]
    ELSE [how |-> "miss", fc |-> fc, mem |-> mem,
          reads |-> IF t \in fc THEN 1 ELSE 0]

\* load_tile with file_cache.remove on the Ok arm of the disk tier as well.
LoadPreKickOnHit(fc, mem, d, t, readOk) ==
    IF t \in DOMAIN mem
    THEN [how |-> "mem", fc |-> fc, mem |-> mem, reads |-> 0]
    ELSE IF t \in fc
    THEN IF FileLoads(d, t, readOk)
         THEN [how |-> "disk", fc |-> fc \ {t},
               mem |-> Insert(mem, t, Decode(t, d[to_path[t]])), reads |-> 1]
         ELSE [how |-> "miss", fc |-> fc \ {t}, mem |-> mem, reads |-> 1]
    ELSE [how |-> "miss", fc |-> fc, mem |-> mem, reads |-> 0]

\* Lines 74-86: memory hit, disk hit, or a miss that goes on to the network
\* (after kicking an unreadable entry out of file_cache).
LoadPre(fc, mem, d, t, readOk) ==
    IF t \in DOMAIN mem
    THEN [how |-> "mem", fc |-> fc, mem |-> mem, reads |-> 0]
    ELSE IF t \in fc
    THEN IF FileLoads(d, t, readOk)
         THEN [how |-> "disk", fc |-> fc,
               mem |-> Insert(mem, t, Decode(t, d[to_path[t]])), reads |-> 1]
         ELSE [how |-> "miss", fc |-> fc \ {t}, mem |-> mem, reads |-> 1]
    ELSE [how |-> "miss", fc |-> fc, mem |-> mem, reads |-> 0]

\* What the server and the file system can answer.  send() returns Ok for
\* every status; ok = FALSE is a transport error of send() or bytes().
Statuses == {200, 404}

Is2xx(st) == st \in 200..299

NetOutcomes ==
    {[ok |-> FALSE, status |-> 0, body |-> "junk"]}
        \cup {[ok |-> TRUE, status |-> st, body |-> b] : st \in Statuses, b \in Payloads}

WriteOutcomes == {"ok", "create_err", "write_err"}

\* load_tile without its file_cache.insert (line 100).
LoadPostNoFileInsert(fc, mem, d, t, net, wr) ==
    IF ~net.ok
    THEN [res |-> "Err", fail |-> "net", fc |-> fc, mem |-> mem, disk |-> d,
          writes |-> 0]
    ELSE IF wr # "ok"
    THEN [res |-> "Err", fail |-> "write", fc |-> fc, mem |-> mem, disk |-> d,
          writes |-> 0]
    ELSE IF ~Decodes(net.body)
    THEN [res |-> "Err", fail |-> "decode", fc |-> fc, mem |-> mem,
          disk |-> WriteFile(d, to_path[t], net.body), writes |-> 1]
    ELSE [res |-> "Ok", fail |-> "none", fc |-> fc,
          mem |-> Insert(mem, t, Decode(t, net.body)),
          disk |-> WriteFile(d, to_path[t], net.body), writes |-> 1]

\* load_tile with the tile put into mem_cache before the payload is decoded.
LoadPostInsertEarly(fc, mem, d, t, net, wr) ==
    IF ~net.ok
    THEN [res |-> "Err", fail |-> "net", fc |-> fc, mem |-> mem, disk |-> d,
          writes |-> 0]
    ELSE IF wr # "ok"
    THEN [res |-> "Err", fail |-> "write", fc |-> fc, mem |-> mem, disk |-> d,
          writes |-> 0]
    ELSE [res |-> IF Decodes(net.body) THEN "Ok" ELSE "Err",
          fail |-> IF Decodes(net.body) THEN "none" ELSE "decode",
          fc |-> fc \cup {t}, mem |-> Insert(mem, t, Decode(t, net.body)),
          disk |-> WriteFile(d, to_path[t], net.body), writes |-> 1]

\* Lines 90-102: request, File::create, write_all, decode, the two inserts.
LoadPost(fc, mem, d, t, net, wr) ==
    IF ~net.ok
    THEN [res |-> "Err", fail |-> "net", fc |-> fc, mem |-> mem, disk |-> d,
          writes |-> 0]
    ELSE IF wr = "create_err"
    THEN [res |-> "Err", fail |-> "write", fc |-> fc, mem |-> mem, disk |-> d,
          writes |-> 0]
    ELSE IF wr = "write_err"
    THEN [res |-> "Err", fail |-> "write", fc |-> fc, mem |-> mem,
          disk |-> WriteFile(d, to_path[t], "junk"), writes |-> 1]
    ELSE IF ~Decodes(net.body)
    THEN [res |-> "Err", fail |-> "decode", fc |-> fc, mem |-> mem,
          disk |-> WriteFile(d, to_path[t], net.body), writes |-> 1]
    ELSE [res |-> "Ok", fail |-> "none", fc |-> fc \cup {t},
          mem |-> Insert(mem, t, Decode(t, net.body)),
          disk |-> WriteFile(d, to_path[t], net.body), writes |-> 1]

\* How the fs::read of try_load_from_file went, if the call came to it.
ReadOutcome(pre, readOk) ==
    IF pre.reads = 0 THEN "none" ELSE IF readOk THEN "ok" ELSE "err"

\* Whether this call directly follows a load_tile of the same address that
\* returned Ok.
Repeats(t) == last.op = "load_tile" /\ last.res = "Ok" /\ last.tile = t

\* One whole call of load_tile(t) on the live getter.
\* The environment's answers are drawn only where the call consults them.
LoadTileCall(t) ==
    \E readOk \in IF t \notin DOMAIN mem_cache /\ t \in file_cache
                      /\ to_path[t] \in DOMAIN disk
                   THEN BOOLEAN ELSE {FALSE} :
    \E pre \in {LoadPre(file_cache, mem_cache, disk, t, readOk)} :
        IF pre.how # "miss"
        THEN /\ file_cache' = pre.fc
             /\ mem_cache' = pre.mem
             /\ disk' = disk
             /\ loaded' = loaded \cup {t}
             /\ served' = served \cup {t}
             /\ last' = [op |-> "load_tile", tile |-> t, res |-> "Ok",
                         how |-> pre.how, fail |-> "none", net |-> 0,
                         reads |-> pre.reads, writes |-> 0, status |-> 0,
                         body |-> "none", rep |-> Repeats(t),
                         read |-> ReadOutcome(pre, readOk)]
        ELSE \E net \in NetOutcomes :
             \E wr \in IF net.ok THEN WriteOutcomes ELSE {"ok"} :
             \E post \in {LoadPost(pre.fc, pre.mem, disk, t, net, wr)} :
                 /\ file_cache' = post.fc
                 /\ mem_cache' = post.mem
                 /\ disk' = post.disk
                 /\ loaded' = IF post.res = "Ok" THEN loaded \cup {t}
                              ELSE loaded
                 /\ served' = IF post.res = "Ok" THEN served \cup {t}
                              ELSE served
                 /\ last' = [op |-> "load_tile", tile |-> t,
                             res |-> post.res, how |-> "net",
                             fail |-> post.fail, net |-> 1,
                             reads |-> pre.reads, writes |-> post.writes,
                             status |-> net.status,
                             body |-> IF net.ok THEN net.body ELSE "none",
                             rep |-> Repeats(t),
                             read |-> ReadOutcome(pre, readOk)]

LoadTile(t) ==
    /\ getter = "live"
    /\ batch.res # "run"
    /\ LoadTileCall(t)
    /\ batch' = NoBatch
    /\ UNCHANGED getter

\* A lookup that takes the entry out of the map.
LookupTaking(mem, t) ==
    [res |-> IF t \in DOMAIN mem THEN "Some" ELSE "None",
     mem |-> [u \in DOMAIN mem \ {t} |-> mem[u]]]

\* self.mem_cache.get(&tile): the map is only read.
Lookup(mem, t) ==
    [res |-> IF t \in DOMAIN mem THEN "Some" ELSE "None", mem |-> mem]

\* MvtGetter::get_tile.
GetTile(t) ==
    /\ getter = "live"
    /\ batch.res # "run"
    /\ last' = [NoCall EXCEPT !.op = "get_tile", !.tile = t,
                              !.res = Lookup(mem_cache, t).res]
    /\ mem_cache' = Lookup(mem_cache, t).mem
    /\ batch' = NoBatch
    /\ UNCHANGED <<disk, getter, file_cache, loaded, served>>

(***************************************************************************)
(* MvtGetter::load_tiles: the loop, one load_tile per step.                *)
(***************************************************************************)
RECURSIVE SeqsUpTo(_, _)
SeqsUpTo(S, n) ==
    IF n = 0 THEN {<<>>}
    ELSE SeqsUpTo(S, n - 1)
             \cup {Append(q, e) : q \in {p \in SeqsUpTo(S, n - 1) : Len(p) = n - 1}, e \in S}

BatchInputs == SeqsUpTo(Tiles, MaxBatch)

\* The address the loop turns to next: the slice in order.
NextTile(b) == b.tiles[Len(b.log) + 1]

\* load_tiles that goes on after a failed load_tile.
AfterCallNoAbort(b, t, res) ==
    [tiles |-> b.tiles, log |-> Append(b.log, t),
     res |-> IF Len(b.log) + 1 = Len(b.tiles) THEN res ELSE "run"]

\* The `?`: an error ends the loop, the end of the slice ends it with Ok.
AfterCall(b, t, res) ==
    [tiles |-> b.tiles, log |-> Append(b.log, t),
     res |-> IF res = "Err" THEN "Err"
             ELSE IF Len(b.log) + 1 = Len(b.tiles) THEN "Ok" ELSE "run"]

StartLoadTiles(ts) ==
    /\ getter = "live"
    /\ batch.res # "run"
    /\ batch' = [tiles |-> ts, log |-> <<>>,
                 res |-> IF ts = <<>> THEN "Ok" ELSE "run"]
    /\ UNCHANGED <<disk, getter, file_cache, mem_cache, last, loaded, served>>

LoadTilesStep ==
    /\ getter = "live"
    /\ batch.res = "run"
    /\ LoadTileCall(NextTile(batch))
    /\ batch' = AfterCall(batch, NextTile(batch), last'.res)
    /\ UNCHANGED getter

(***************************************************************************)
(* The cache used from one thread.                                         *)
(***************************************************************************)
Workers == 1..NumWorkers
Renderers == 1..NumRenderers

WorldIdle ==
    /\ lock = [writers |-> {}, readers |-> {}]
    /\ wpc = [w \in Workers |-> "idle"]
    /\ wjob = [w \in Workers |-> <<>>]
    /\ rpc = [r \in Renderers |-> "idle"]
    /\ fetches = [t \in Tiles |-> <<>>]
    /\ received = [t \in Tiles |-> 0]

ValidIdle ==
    /\ vin = [z |-> 0, x |-> [hi |-> 0, lo |-> 0], y |-> [hi |-> 0, lo |-> 0]]
    /\ vout = "none"

\* The values the variables of the pure operations hold while unused.
NoScene == [center |-> [x |-> 0, y |-> 0], zoom |-> 0]

NoChosen == [op |-> "none", res |-> "none", levels |-> <<>>,
          val |-> [n |-> 1, a |-> <<>>, b |-> <<>>]]

NoFade == [res |-> "none", a |-> 0, b |-> 0]

SelIdle ==
    /\ scene = NoScene
    /\ chosen = NoChosen
    /\ fade = NoFade

NoProps == [k \in {} |-> "none"]

NoSorter == [sub_types |-> <<>>, fall_back |-> [some |-> FALSE, style |-> 0]]

NoFeat == [some |-> FALSE, map |-> NoProps, zoom |-> 0]

NoStyle == [res |-> "none", style |-> 0]

ClsIdle ==
    /\ sorter = NoSorter
    /\ feat = NoFeat
    /\ style = NoStyle

NoArea == [outer |-> <<>>, inner |-> <<>>]

NoWound == [pc |-> "idle", had_flip |-> FALSE, calls |-> 0, before |-> NoArea]

WindIdle ==
    /\ area = NoArea
    /\ wound = NoWound

NoGeom == [kind |-> "none", rings |-> <<>>, extent |-> 1]

NoConv == [pc |-> "idle", paths |-> <<>>, areas |-> <<>>]

ConvIdle ==
    /\ geom = NoGeom
    /\ conv = NoConv

NoMapData == [pc |-> "idle", res |-> "none", layers |-> <<>>]

LayerIdle ==
    /\ payload = <<>>
    /\ sorters = <<>>
    /\ mapdata = NoMapData

Threads == 1..NumThreads

NoVideo == [pc |-> "idle", next |-> 1, todo |-> {}, ok |-> {}, res |-> "none"]

NoJob == [pc |-> "idle", frame |-> 0, out |-> "none"]

VideoIdle ==
    /\ frames = <<>>
    /\ video = NoVideo
    /\ rjob = [r \in Threads |-> NoJob]

NoLoop == [pc |-> "init", todo |-> {}, cur |-> "none"]

MainIdle ==
    /\ inputs = <<>>
    /\ hashes = <<>>
    /\ outputs = {}
    /\ loop = NoLoop
    /\ seen = <<>>

OtherIdle == ConvIdle /\ LayerIdle /\ VideoIdle /\ MainIdle

PureIdle == ValidIdle /\ SelIdle /\ ClsIdle /\ WindIdle /\ OtherIdle

Disks ==
    UNION {[S -> Payloads] : S \in SUBSET {to_path[t] : t \in Tiles}}

JunkDisks == UNION {[S -> {"junk"}] : S \in SUBSET JunkNames}

Init ==
    /\ disk \in Disks
    /\ getter = "none"
    /\ file_cache = {}
    /\ mem_cache = EmptyMem
    /\ last = NoCall
    /\ batch = NoBatch
    /\ loaded = {}
    /\ served = {}
    /\ WorldIdle
    /\ PureIdle

Next ==
    \/ \E ioOk \in BOOLEAN : New(ioOk) /\ UNCHANGED <<worldVars, pureVars>>
    \/ Drop /\ UNCHANGED <<worldVars, pureVars>>
    \/ \E t \in Tiles : LoadTile(t) /\ UNCHANGED <<worldVars, pureVars>>
    \/ \E t \in Tiles : GetTile(t) /\ UNCHANGED <<worldVars, pureVars>>
    \/ \E ts \in BatchInputs :
           StartLoadTiles(ts) /\ UNCHANGED <<worldVars, pureVars>>
    \/ LoadTilesStep /\ UNCHANGED <<worldVars, pureVars>>

Spec == Init /\ [][Next]_vars

(***************************************************************************)
(* Startup alone, over directories that also hold foreign files.           *)
(***************************************************************************)
InitScan ==
    /\ disk \in {a @@ b : a \in Disks, b \in JunkDisks}
    /\ getter = "none"
    /\ file_cache = {}
    /\ mem_cache = EmptyMem
    /\ last = NoCall
    /\ batch = NoBatch
    /\ loaded = {}
    /\ served = {}
    /\ WorldIdle
    /\ PureIdle

NextScan ==
    \E ioOk \in BOOLEAN : New(ioOk) /\ UNCHANGED <<worldVars, pureVars>>

SpecScan == InitScan /\ [][NextScan]_vars

(***************************************************************************)
(* World::load_tiles_at on worker threads and render_background on         *)
(* renderer threads, around the one RwLock<MvtGetter> (MAP_DATA).          *)
(***************************************************************************)
\* What get_tiles_at hands back: the addresses of one level or of two.
One(ts) == [n |-> 1, a |-> ts, b |-> <<>>]
Two(a, b) == [n |-> 2, a |-> a, b |-> b]

LevelTiles == SeqsUpTo(Tiles, MaxLevel)

OneOrTwo == {One(ts) : ts \in LevelTiles} \cup {Two(a, b) : a, b \in LevelTiles}

\* The order load_tiles_at loads them in: load_tiles(&a)?, then load_tiles(&b)?.
LoadOrder(sel) == sel.a \o sel.b

\* A write() that does not wait for the other writers.
CanWriteShared(l) == l.readers = {}

\* RwLock::write returns once nobody else holds the lock.
CanWrite(l) == l.writers = {} /\ l.readers = {}

\* RwLock::read returns once no writer holds the lock.
CanRead(l) == l.writers = {}

Bump(n) == IF n < CountCap THEN n + 1 ELSE n

\* load_tiles_at up to the first load_tile: the write lock, then get_tiles_at.
WAcquire(w, sel) ==
    /\ wpc[w] = "idle"
    /\ CanWrite(lock)
    /\ lock' = [lock EXCEPT !.writers = @ \cup {w}]
    /\ wpc' = [wpc EXCEPT ![w] = "hold"]
    /\ wjob' = [wjob EXCEPT ![w] = LoadOrder(sel)]
    /\ UNCHANGED <<cacheVars, rpc, fetches, received>>

\* load_tile up to the request: a hit ends the call, a miss sends the request.
WLoad(w) ==
    /\ wpc[w] = "hold"
    /\ wjob[w] # <<>>
    /\ \E readOk \in BOOLEAN :
       \E pre \in {LoadPre(file_cache, mem_cache, disk, Head(wjob[w]), readOk)} :
             /\ file_cache' = pre.fc
             /\ mem_cache' = pre.mem
             /\ IF pre.how = "miss"
                THEN /\ wpc' = [wpc EXCEPT ![w] = "fetching"]
                     /\ UNCHANGED wjob
                ELSE /\ wjob' = [wjob EXCEPT ![w] = Tail(@)]
                     /\ UNCHANGED wpc
    /\ UNCHANGED <<disk, getter, last, batch, loaded, served, lock, rpc,
                   fetches, received>>

\* The rest of load_tile once the request is answered; an Err leaves
\* load_tiles_at through `?`, which drops the lock.
WAnswer(w) ==
    /\ wpc[w] = "fetching"
    /\ \E net \in NetOutcomes :
       \E wr \in IF net.ok THEN WriteOutcomes ELSE {"ok"} :
       \E t \in {Head(wjob[w])} :
       \E post \in {LoadPost(file_cache, mem_cache, disk, t, net, wr)} :
             /\ file_cache' = post.fc
             /\ mem_cache' = post.mem
             /\ disk' = post.disk
             /\ received' = IF net.ok /\ Is2xx(net.status)
                            THEN [received EXCEPT ![t] = Bump(@)]
                            ELSE received
             /\ IF post.res = "Ok"
                THEN /\ fetches' = [fetches EXCEPT ![t] =
                                       IF Len(@) < CountCap THEN Append(@, w) ELSE @]
                     /\ wjob' = [wjob EXCEPT ![w] = Tail(@)]
                     /\ wpc' = [wpc EXCEPT ![w] = "hold"]
                     /\ UNCHANGED lock
                ELSE /\ wpc' = [wpc EXCEPT ![w] = "idle"]
                     /\ wjob' = [wjob EXCEPT ![w] = <<>>]
                     /\ lock' = [lock EXCEPT !.writers = @ \ {w}]
                     /\ UNCHANGED fetches
    /\ UNCHANGED <<getter, last, batch, loaded, served, rpc>>

\* drop(lock); Ok(()).
WRelease(w) ==
    /\ wpc[w] = "hold"
    /\ wjob[w] = <<>>
    /\ wpc' = [wpc EXCEPT ![w] = "idle"]
    /\ lock' = [lock EXCEPT !.writers = @ \ {w}]
    /\ UNCHANGED <<cacheVars, wjob, rpc, fetches, received>>

\* render_background: WORLD.map.read().
RAcquire(r) ==
    /\ rpc[r] = "idle"
    /\ CanRead(lock)
    /\ lock' = [lock EXCEPT !.readers = @ \cup {r}]
    /\ rpc' = [rpc EXCEPT ![r] = "reading"]
    /\ UNCHANGED <<cacheVars, wpc, wjob, fetches, received>>

\* map.get_tile(*tile) under the read lock.
RGetTile(r, t) ==
    /\ rpc[r] = "reading"
    /\ rpc' = [rpc EXCEPT ![r] = Lookup(mem_cache, t).res]
    /\ mem_cache' = Lookup(mem_cache, t).mem
    /\ UNCHANGED <<disk, getter, file_cache, last, batch, loaded, served,
                   lock, wpc, wjob, fetches, received>>

\* The read guard goes out of scope.
RRelease(r) ==
    /\ rpc[r] \in {"Some", "None"}
    /\ rpc' = [rpc EXCEPT ![r] = "idle"]
    /\ lock' = [lock EXCEPT !.readers = @ \ {r}]
    /\ UNCHANGED <<cacheVars, wpc, wjob, fetches, received>>

\* MAP_DATA after init(): the getter constructed over a directory of tiles.
InitWorld ==
    /\ disk \in Disks
    /\ getter = "live"
    /\ file_cache = ScanTiles(disk)
    /\ mem_cache = EmptyMem
    /\ last = NoCall
    /\ batch = NoBatch
    /\ loaded = {}
    /\ served = {}
    /\ WorldIdle
    /\ PureIdle

NextWorld ==
    \/ \E w \in Workers, sel \in OneOrTwo : WAcquire(w, sel) /\ UNCHANGED pureVars
    \/ \E w \in Workers : WLoad(w) /\ UNCHANGED pureVars
    \/ \E w \in Workers : WAnswer(w) /\ UNCHANGED pureVars
    \/ \E w \in Workers : WRelease(w) /\ UNCHANGED pureVars
    \/ \E r \in Renderers : RAcquire(r) /\ UNCHANGED pureVars
    \/ \E r \in Renderers, t \in Tiles : RGetTile(r, t) /\ UNCHANGED pureVars
    \/ \E r \in Renderers : RRelease(r) /\ UNCHANGED pureVars

SpecWorld == InitWorld /\ [][NextWorld]_vars

(***************************************************************************)
(* TileDescr::valid on u32 fields.  A u32 is kept as two 16-bit halves,    *)
(* so that 1 << 31 and columns up to 2^32 - 1 can be written.              *)
(***************************************************************************)
WordBits == 32

Half == 2 ^ 16

U32(hi, lo) == [hi |-> hi, lo |-> lo]

Lt(a, b) == a.hi < b.hi \/ (a.hi = b.hi /\ a.lo < b.lo)

\* 1u32 << s for a shift s below the width.
Shl1(s) == IF s < 16 THEN U32(0, 2 ^ s) ELSE U32(2 ^ (s - 16), 0)

\* valid() in a build with overflow checks (debug): 1 << z panics from z = 32
\* on; without them (release) the shift amount is taken modulo the width.
valid(t, build) ==
    IF t.z >= WordBits /\ build = "debug" THEN "panic"
    ELSE LET n_tiles == Shl1(t.z % WordBits)
         IN IF Lt(t.x, n_tiles) /\ Lt(t.y, n_tiles) THEN "true" ELSE "false"

Builds == {"debug", "release"}

ZoomSamples == {0, 1, 2, 5, 14, 16, 31, 32, 33, 40, 64}

U32Samples ==
    {U32(0, 0), U32(0, 1), U32(0, 2), U32(0, 3), U32(0, 31), U32(0, 32),
     U32(0, 16383), U32(0, 16384), U32(0, Half - 1), U32(1, 0),
     U32(Half \div 2 - 1, Half - 1), U32(Half \div 2, 0), U32(Half - 1, Half - 1)}

Valid(build) ==
    /\ vout = "none"
    /\ vout' = valid(vin, build)
    /\ UNCHANGED <<vin, cacheVars, worldVars, selVars, clsVars, windVars, otherVars>>

InitValid ==
    /\ vin \in {TileDescr(z, x, y) : z \in ZoomSamples, x, y \in U32Samples}
    /\ vout = "none"
    /\ disk = EmptyMem
    /\ getter = "none"
    /\ file_cache = {}
    /\ mem_cache = EmptyMem
    /\ last = NoCall
    /\ batch = NoBatch
    /\ loaded = {}
    /\ served = {}
    /\ WorldIdle
    /\ SelIdle
    /\ ClsIdle
    /\ WindIdle
    /\ OtherIdle

NextValid == \E build \in Builds : Valid(build)

SpecValid == InitValid /\ [][NextValid]_vars

(***************************************************************************)
(* Claims about the cache used from one thread (Spec).                     *)
(***************************************************************************)
LastPath == to_path[last.tile]

\* C1: a load_tile(t) that directly follows a load_tile(t) which returned Ok
\* returns Ok, issues no network request, reads and writes no file, and
\* leaves mem_cache, file_cache and the directory as they were.
C1_LoadTileIdempotent ==
    /\ [](last.rep =>
            /\ last.res = "Ok"
            /\ last.net = 0
            /\ last.reads = 0
            /\ last.writes = 0)
    /\ [][last'.rep =>
            /\ mem_cache' = mem_cache
            /\ file_cache' = file_cache
            /\ disk' = disk]_vars

C1_Witness ==
    /\ last.rep
    /\ last.how = "mem"
    /\ last.tile \in DOMAIN mem_cache

\* C2 (as claimed): an address in file_cache and not in mem_cache whose file
\* fails to read or decode, and whose fetch and decode succeed, is loaded:
\* Ok, its file rewritten with the fetched payload, in mem_cache and in
\* file_cache.
C2_CorruptEntryRecovered ==
    (/\ last.op = "load_tile"
     /\ last.reads = 1
     /\ last.net = 1
     /\ Is2xx(last.status)
     /\ Decodes(last.body))
        => /\ last.res = "Ok"
           /\ ReadFile(disk, LastPath) = last.body
           /\ last.tile \in DOMAIN mem_cache
           /\ last.tile \in file_cache

\* C2 (amended): the same, provided File::create and write_all succeed too.
C2_CorruptEntryRecoveredIfWritten ==
    (/\ last.op = "load_tile"
     /\ last.reads = 1
     /\ last.net = 1
     /\ Is2xx(last.status)
     /\ Decodes(last.body)
     /\ last.fail # "write")
        => /\ last.res = "Ok"
           /\ ReadFile(disk, LastPath) = last.body
           /\ mem_cache[last.tile] = Decode(last.tile, last.body)
           /\ last.tile \in file_cache

C2_Witness ==
    /\ last.op = "load_tile"
    /\ last.reads = 1
    /\ last.net = 1
    /\ Is2xx(last.status)
    /\ last.res = "Ok"
    /\ last.tile \in file_cache
    /\ ReadFile(disk, LastPath) = last.body

\* C4: a call of load_tile issues at most one request; when the request, the
\* write or the decode fails it returns Err and mem_cache is as before, the
\* address not in it.
C4_FailurePropagates ==
    /\ [](last.op = "load_tile" =>
            /\ last.net <= 1
            /\ (last.fail # "none" =>
                    /\ last.res = "Err"
                    /\ last.tile \notin DOMAIN mem_cache))
    /\ [][(last'.op = "load_tile" /\ last'.res = "Err") =>
            mem_cache' = mem_cache]_vars

C4_Witness ==
    /\ last.op = "load_tile"
    /\ last.fail = "decode"
    /\ last.res = "Err"
    /\ DOMAIN mem_cache # {}

\* C5: load_tiles calls load_tile on the addresses in the order given; the
\* first failed load ends it with that error and no later address is tried;
\* every address loaded before stays in mem_cache and file_cache.
C5_LoadTilesInOrder ==
    batch.res # "idle" =>
        /\ Len(batch.log) <= Len(batch.tiles)
        /\ \A i \in 1..Len(batch.log) : batch.log[i] = batch.tiles[i]
        /\ batch.res = "Ok" => batch.log = batch.tiles
        /\ batch.res = "Err" =>
              /\ batch.log # <<>>
              /\ last.res = "Err"
              /\ last.tile = batch.log[Len(batch.log)]
        /\ \A i \in 1..Len(batch.log) :
              (i < Len(batch.log) \/ batch.res # "Err") =>
                  /\ batch.log[i] \in DOMAIN mem_cache
                  /\ batch.log[i] \in file_cache

C5_Witness ==
    /\ batch.res = "Err"
    /\ Len(batch.log) = 2
    /\ batch.log[1] # batch.log[2]
    /\ batch.log[1] \in DOMAIN mem_cache

\* C6: a response with a non-2xx status makes load_tile return Err whatever
\* its body: nothing is written to the directory, nothing is decoded, the
\* address enters neither file_cache nor mem_cache.
C6_NonSuccessStatusFails ==
    (last.op = "load_tile" /\ last.status # 0 /\ ~Is2xx(last.status)) =>
        /\ last.res = "Err"
        /\ last.writes = 0
        /\ last.tile \notin DOMAIN mem_cache
        /\ last.tile \notin file_cache

\* C8: to_file_name and the scan's parsing are inverse, so an address whose
\* load_tile returned Ok is in file_cache of a getter constructed afterwards,
\* whose mem_cache is empty.
RoundTripTiles ==
    {TileDescr(z, x, y) : z \in {0, 7, 14, 76}, x, y \in {0, 6, 9, 10, 44, 66, 16383}}

RoundTrip ==
    \A t \in RoundTripTiles :
        ScanEntry(to_file_name(t)) = [kind |-> "tile", tile |-> t]

FreshGetter == getter = "live" /\ last = NoCall /\ batch = NoBatch

C8_PersistsAcrossRestart ==
    /\ RoundTrip
    /\ FreshGetter => (served \subseteq file_cache /\ DOMAIN mem_cache = {})

C8_Witness ==
    /\ FreshGetter
    /\ served = Tiles
    /\ file_cache = Tiles

\* C9: once load_tile(t) has returned Ok on a getter, get_tile(t) returns
\* Some, whatever loads, successful or failed, came in between: nothing
\* leaves mem_cache.
C9_LoadedStaysAvailable ==
    /\ loaded \subseteq DOMAIN mem_cache
    /\ (last.op = "get_tile" /\ last.tile \in loaded) => last.res = "Some"

C9_Witness ==
    /\ last.op = "get_tile"
    /\ last.res = "Some"
    /\ loaded = Tiles

(***************************************************************************)
(* Claims about startup (SpecScan).                                        *)
(***************************************************************************)
\* C7: MvtGetter::new succeeds whatever names the directory holds: a name
\* that is not {zoom}_{col}_{row}.mvt is skipped, without Err and without
\* panic, and every well-formed name is registered.
C7_NewSkipsMalformedNames ==
    /\ getter \notin {"err_parse", "panic"}
    /\ getter = "live" =>
          \A t \in Tiles : to_path[t] \in DOMAIN disk => t \in file_cache

(***************************************************************************)
(* Claims about the shared cache (SpecWorld).                              *)
(***************************************************************************)
InFlight == {w \in Workers : wpc[w] = "fetching"}

\* C3 (as claimed): with workers in load_tiles_at and renderers in get_tile,
\* at most one network fetch is in flight at a time and an address has at
\* most one successful network fetch in the life of the process; a worker
\* that finds the address in memory does not fetch.
C3_OneFetchPerAddress ==
    /\ Cardinality(InFlight) <= 1
    /\ \A t \in Tiles : received[t] <= 1

\* C3 (amended): at most one fetch is in flight at a time and an address has
\* at most one network fetch that ends in a loaded tile; a worker that finds
\* the address in memory consumes it without a request.
C3_OneLoadingFetchPerAddress ==
    /\ [](/\ Cardinality(InFlight) <= 1
          /\ \A t \in Tiles : Len(fetches[t]) <= 1
          /\ \A w \in InFlight : Head(wjob[w]) \notin DOMAIN mem_cache)
    /\ [][\A w \in Workers :
            (wpc[w] = "hold" /\ wpc'[w] = "fetching")
                => Head(wjob[w]) \notin DOMAIN mem_cache]_vars

C3_Witness ==
    \E w \in Workers, t \in Tiles :
        /\ wpc[w] = "hold"
        /\ wjob[w] # <<>>
        /\ Head(wjob[w]) = t
        /\ Len(fetches[t]) = 1
        /\ fetches[t][1] # w
        /\ t \in DOMAIN mem_cache

(***************************************************************************)
(* Claims about TileDescr::valid (SpecValid).                              *)
(***************************************************************************)
\* c < 2^z over the integers, for a c that fits a u32.
BelowPow2(c, z) == z >= WordBits \/ Lt(c, Shl1(z))

\* C10: for every u32 zoom, column and row, zoom 32 and above included,
\* valid() does not panic and returns true exactly when column and row are
\* below 2^zoom.
C10_ValidIffInGrid ==
    vout # "none" =>
        /\ vout # "panic"
        /\ vout = "true" <=> (BelowPow2(vin.x, vin.z) /\ BelowPow2(vin.y, vin.z))

(***************************************************************************)
(* World::get_tiles_at and get_tiles_fixed (src/src/main.rs) on a ScenePos *)
(* (src/src/draw.rs).  An f32 zoom is kept in eighths and a world          *)
(* coordinate in units of 2^-24: over the views used here both are exact   *)
(* in f32 wherever the zoom is an integer, and 2^(-zoom) is taken from a   *)
(* table rounded to 12 bits elsewhere.                                     *)
(***************************************************************************)
ZoomDen == 8

WorldBits == 24

WorldDen == 2 ^ WorldBits

WIDTH == 3840

HEIGHT == 2160

TILE_SIZE == 6144

MaxTileZoom == 14

FADE_MIN == ZoomDen \div 4

FADE_MID == ZoomDen \div 2

FADE_MAX == (3 * ZoomDen) \div 4

ScenePos(cx, cy, zoom) == [center |-> [x |-> cx, y |-> cy], zoom |-> zoom]

\* f32::floor, in whole zoom levels.
Floor(zoom) == zoom \div ZoomDen

\* f32::fract: what is left after truncating towards zero, in eighths.
Fract(zoom) == IF zoom >= 0 THEN zoom % ZoomDen ELSE -((-zoom) % ZoomDen)

\* `as u32` on a float: truncates, and saturates below at 0.
AsU32(n) == IF n < 0 THEN 0 ELSE n

\* 4096 * 2^(-k/8) for k = 0..7.
Pow2Neg == <<4096, 3756, 3444, 3158, 2896, 2656, 2435, 2233>>

\* The f32 2^(-zoom) / TILE_SIZE is finite from zoom -127.875 on and
\* positive up to zoom 137.375; Transform::new asserts both.
ScaleFinite(zoom) == zoom > -128 * ZoomDen

ScalePositive(zoom) == 8 * zoom <= 1099 * ZoomDen

\* scale * pixels / 2 of screen_to_world, in world units.
HalfExtent(zoom, pixels) ==
    LET f == Floor(zoom)
        num == ((pixels * (WorldDen \div Pow2Neg[1])) \div (2 * TILE_SIZE))
                   * Pow2Neg[zoom - f * ZoomDen + 1]
    IN IF f > 30 THEN 0
       ELSE IF f >= 0 THEN num \div (2 ^ f)
       ELSE num * (2 ^ (-f))

screen_to_world(s) ==
    IF ScaleFinite(s.zoom) /\ ScalePositive(s.zoom)
    THEN [res |-> "ok", hx |-> HalfExtent(s.zoom, WIDTH),
          hy |-> HalfExtent(s.zoom, HEIGHT)]
    ELSE [res |-> "panic", hx |-> 0, hy |-> 0]

world_min(s) ==
    LET tr == screen_to_world(s)
    IN [x |-> s.center.x - tr.hx, y |-> s.center.y - tr.hy]

world_max(s) ==
    LET tr == screen_to_world(s)
    IN [x |-> s.center.x + tr.hx, y |-> s.center.y + tr.hy]

\* f32 * 2^zoom, then `as u32`, of a world coordinate.
TileIndex(w, zoom) ==
    AsU32(IF w < 0 THEN -1   \* any negative product
          ELSE IF zoom <= WorldBits THEN w \div (2 ^ (WorldBits - zoom))
          ELSE w * (2 ^ (zoom - WorldBits)))

ToU32(n) == U32(n \div Half, n % Half)

\* The two nested loops of get_tiles_fixed, column by column.
GridSeq(z, min_x, max_x, min_y, max_y) ==
    LET nx == IF max_x >= min_x THEN max_x - min_x + 1 ELSE 0
        ny == IF max_y >= min_y THEN max_y - min_y + 1 ELSE 0
    IN [i \in 1..(nx * ny) |->
           TileDescr(z, min_x + ((i - 1) \div ny), min_y + ((i - 1) % ny))]

get_tiles_fixed(s, zoom) ==
    IF screen_to_world(s).res = "panic" THEN [res |-> "panic", tiles |-> <<>>]
    ELSE LET min_x == TileIndex(world_min(s).x, zoom)
             min_y == TileIndex(world_min(s).y, zoom)
             max_x == TileIndex(world_max(s).x, zoom)
             max_y == TileIndex(world_max(s).y, zoom)
         IN [res |-> "ok",
             tiles |-> SelectSeq(GridSeq(zoom, min_x, max_x, min_y, max_y),
                           LAMBDA t : valid(TileDescr(t.z, ToU32(t.x), ToU32(t.y)),
                                            "debug") = "true")]

\* OneOrTwo of the results of get_tiles_fixed, with the levels asked for.
Levels(s, lv) ==
    LET a == get_tiles_fixed(s, lv[1])
        b == IF Len(lv) = 2 THEN get_tiles_fixed(s, lv[2]) ELSE a
    IN IF a.res = "panic" \/ b.res = "panic"
       THEN [res |-> "panic", levels |-> lv, val |-> One(<<>>)]
       ELSE [res |-> "ok", levels |-> lv,
             val |-> IF Len(lv) = 2 THEN Two(a.tiles, b.tiles) ELSE One(a.tiles)]

\* get_tiles_at without its first arm: every fractional part up to FADE_MAX
\* asks for two levels.
get_tiles_atNoLowBand(s) ==
    LET floor_zoom == Floor(s.zoom)
        frac_zoom == s.zoom - floor_zoom * ZoomDen
    IN IF AsU32(floor_zoom) >= MaxTileZoom THEN Levels(s, <<MaxTileZoom>>)
       ELSE IF frac_zoom <= FADE_MAX
            THEN Levels(s, <<AsU32(floor_zoom), AsU32(floor_zoom) + 1>>)
       ELSE Levels(s, <<AsU32(floor_zoom) + 1>>)

\* get_tiles_at without the comparison with the deepest level.
get_tiles_atNoClamp(s) ==
    LET floor_zoom == Floor(s.zoom)
        frac_zoom == s.zoom - floor_zoom * ZoomDen
    IN IF frac_zoom <= FADE_MIN THEN Levels(s, <<AsU32(floor_zoom)>>)
       ELSE IF frac_zoom <= FADE_MAX
            THEN Levels(s, <<AsU32(floor_zoom), AsU32(floor_zoom) + 1>>)
       ELSE Levels(s, <<AsU32(floor_zoom) + 1>>)

\* The arms of the match are tried in order: 0.0..=FADE_MIN, then
\* FADE_MIN..=FADE_MAX, then FADE_MAX..=1.0.
get_tiles_at(s) ==
    LET floor_zoom == Floor(s.zoom)
        frac_zoom == s.zoom - floor_zoom * ZoomDen
    IN IF AsU32(floor_zoom) >= MaxTileZoom THEN Levels(s, <<MaxTileZoom>>)
       ELSE IF 0 <= frac_zoom /\ frac_zoom <= FADE_MIN
            THEN Levels(s, <<AsU32(floor_zoom)>>)
       ELSE IF FADE_MIN <= frac_zoom /\ frac_zoom <= FADE_MAX
            THEN Levels(s, <<AsU32(floor_zoom), AsU32(floor_zoom) + 1>>)
       ELSE IF FADE_MAX <= frac_zoom /\ frac_zoom <= ZoomDen
            THEN Levels(s, <<AsU32(floor_zoom) + 1>>)
       ELSE [res |-> "panic", levels |-> <<>>, val |-> One(<<>>)]

(***************************************************************************)
(* The opacities of the crossfade (src/src/main.rs), as numerators over    *)
(* FadeDen.                                                                *)
(***************************************************************************)
FadeDen == (FADE_MID - FADE_MIN) ^ 3

Clamp(v, lo, hi) == IF v < lo THEN lo ELSE IF v > hi THEN hi ELSE v

\* t * t * (3 - 2 t) for t = clamp((x - edge0) / (edge1 - edge0), 0, 1).
smooth_step(x, edge0, edge1) ==
    LET d == edge1 - edge0
        t == Clamp(x - edge0, 0, d)
    IN (t * t * (3 * d - 2 * t) * FadeDen) \div (d ^ 3)

FadePanic == [res |-> "panic", v |-> 0]

fade_in_function(x) ==
    IF ~(FADE_MIN <= x /\ x <= FADE_MAX) THEN FadePanic
    ELSE IF x > FADE_MID THEN [res |-> "ok", v |-> FadeDen]
    ELSE [res |-> "ok", v |-> smooth_step(x, FADE_MIN, FADE_MID)]

fade_out_function(x) ==
    IF ~(FADE_MIN <= x /\ x <= FADE_MAX) THEN FadePanic
    ELSE IF x < FADE_MID THEN [res |-> "ok", v |-> FadeDen]
    ELSE [res |-> "ok", v |-> FadeDen - smooth_step(x, FADE_MID, FADE_MAX)]

\* The opacities render_background hands to Layer::draw: 1.0 for a single
\* level, fade_out_function for the coarser and fade_in_function for the
\* finer of two levels, both on zoom.fract().
Opacities(s, c) ==
    IF c.val.n = 1 THEN [res |-> "ok", a |-> FadeDen, b |-> 0]
    ELSE LET out == fade_out_function(Fract(s.zoom))
             in == fade_in_function(Fract(s.zoom))
         IN IF out.res = "panic" \/ in.res = "panic"
            THEN [res |-> "panic", a |-> 0, b |-> 0]
            ELSE [res |-> "ok", a |-> out.v, b |-> in.v]

\* World::load_tiles_at asking which tiles the scene needs.
GetTilesAt ==
    /\ chosen.op = "none"
    /\ chosen' = [op |-> "get_tiles_at"] @@ get_tiles_at(scene)
    /\ UNCHANGED <<scene, fade, cacheVars, worldVars, validVars, clsVars, windVars, otherVars>>

\* Frame::render_background on tiles that are all loaded.
RenderBackground ==
    /\ chosen.op = "none"
    /\ \E c \in {get_tiles_at(scene)} :
          /\ chosen' = [op |-> "render_background"] @@ c
          /\ fade' = IF c.res = "ok" THEN Opacities(scene, c)
                     ELSE [res |-> "panic", a |-> 0, b |-> 0]
    /\ UNCHANGED <<scene, cacheVars, worldVars, validVars, clsVars, windVars, otherVars>>

\* get_tiles_fixed called on its own, as load_test does, for a level no
\* deeper than one past the zoom of the scene.
GetTilesFixed(zoom) ==
    /\ chosen.op = "none"
    /\ zoom <= AsU32(Floor(scene.zoom)) + 1
    /\ \E r \in {get_tiles_fixed(scene, zoom)} :
          chosen' = [op |-> "get_tiles_fixed", res |-> r.res,
                     levels |-> <<zoom>>, val |-> One(r.tiles)]
    /\ UNCHANGED <<scene, fade, cacheVars, worldVars, validVars, clsVars, windVars, otherVars>>

SceneZooms ==
    ((-ZoomDen)..(3 * ZoomDen)) \cup ((13 * ZoomDen)..(15 * ZoomDen))
        \cup {16 * ZoomDen, 137 * ZoomDen + 3, 137 * ZoomDen + 4,
              138 * ZoomDen, 160 * ZoomDen}

\* World coordinates of centres: left of, inside, on the edges of and
\* right of the unit square.
SceneXs ==
    {-WorldDen, 0, 5 * (WorldDen \div 16), WorldDen \div 2,
     37 * (WorldDen \div 64), WorldDen - 1, WorldDen, 3 * (WorldDen \div 2)}

SceneYs == {-(WorldDen \div 2), 0, WorldDen \div 2, WorldDen, 2 * WorldDen}

FixedLevels == {0, 1, 2, 3, 13, 14}

InitSelect ==
    /\ scene \in {ScenePos(cx, cy, z) : cx \in SceneXs, cy \in SceneYs,
                                       z \in SceneZooms}
    /\ chosen = NoChosen
    /\ fade = NoFade
    /\ disk = EmptyMem
    /\ getter = "none"
    /\ file_cache = {}
    /\ mem_cache = EmptyMem
    /\ last = NoCall
    /\ batch = NoBatch
    /\ loaded = {}
    /\ served = {}
    /\ WorldIdle
    /\ ValidIdle
    /\ ClsIdle
    /\ WindIdle
    /\ OtherIdle

NextSelect ==
    \/ GetTilesAt
    \/ RenderBackground
    \/ \E zoom \in FixedLevels : GetTilesFixed(zoom)

SpecSelect == InitSelect /\ [][NextSelect]_vars

(***************************************************************************)
(* Claims about the choice of levels and tiles (SpecSelect).               *)
(***************************************************************************)
Asked == chosen.op \in {"get_tiles_at", "render_background"}

Range(q) == {q[i] : i \in DOMAIN q}

ChosenTiles == Range(chosen.val.a) \cup Range(chosen.val.b)

\* C11: for a zoom with floor f in 0..13 and fractional part r,
\* get_tiles_at asks for level f alone when r < 0.25, for f and f + 1 when
\* 0.25 <= r < 0.75, and for f + 1 alone when r >= 0.75.
C11_SubBandsHalfOpen ==
    LET f == Floor(scene.zoom)
        r == scene.zoom - f * ZoomDen
    IN (Asked /\ 0 <= f /\ f < MaxTileZoom) =>
           /\ chosen.res = "ok"
           /\ chosen.levels = IF r < FADE_MIN THEN <<f>>
                              ELSE IF r < FADE_MAX THEN <<f, f + 1>>
                              ELSE <<f + 1>>

\* C12: at zoom 2.5 render_background draws levels 2 and 3, and both the
\* opacity of level 2 (fade_out_function) and that of level 3
\* (fade_in_function) lie strictly between 0 and 1.
C12_MidBandOpacitiesInside ==
    (chosen.op = "render_background" /\ scene.zoom = 2 * ZoomDen + FADE_MID) =>
        /\ chosen.res = "ok"
        /\ chosen.levels = <<2, 3>>
        /\ fade.res = "ok"
        /\ 0 < fade.a /\ fade.a < FadeDen
        /\ 0 < fade.b /\ fade.b < FadeDen

\* C13: for a zoom that is exactly an integer z in 0..14, get_tiles_at
\* returns one level, and every address in it has zoom field z.
C13_IntegerZoomOneLevel ==
    LET z == Floor(scene.zoom)
    IN (Asked /\ scene.zoom = z * ZoomDen /\ 0 <= z /\ z <= MaxTileZoom) =>
           /\ chosen.res = "ok"
           /\ chosen.val.n = 1
           /\ chosen.levels = <<z>>
           /\ \A t \in ChosenTiles : t.z = z

C13_Witness ==
    /\ chosen.op = "get_tiles_at"
    /\ scene.zoom = 2 * ZoomDen
    /\ Len(chosen.val.a) = 4
    /\ \A t \in ChosenTiles : t.z = 2

Footprints(z, lo, hi) ==
    LET side == 2 ^ (WorldBits - z)
        from == IF lo < 0 THEN 0 ELSE lo \div side
        to == IF hi < 0 THEN 0 ELSE hi \div side
    IN {x \in (from - 1)..(to + 1) :
           /\ 0 <= x /\ x < 2 ^ z
           /\ lo <= (x + 1) * side
           /\ x * side <= hi}

\* C15: get_tiles_fixed returns exactly the valid addresses of the level
\* whose footprint meets the world rectangle of the view, and never panics
\* over an address outside the grid.
C15_FixedIsFootprintCover ==
    (chosen.op = "get_tiles_fixed" /\ ScalePositive(scene.zoom)) =>
        /\ chosen.res = "ok"
        /\ Range(chosen.val.a) =
               {TileDescr(chosen.levels[1], x, y) :
                    x \in Footprints(chosen.levels[1], world_min(scene).x,
                                     world_max(scene).x),
                    y \in Footprints(chosen.levels[1], world_min(scene).y,
                                     world_max(scene).y)}

(***************************************************************************)
(* The style classifier (src/src/map.rs): Condition, TypeConditions and    *)
(* LayerSorter.  A LayerStyle is a number: the fallback style is 0 and     *)
(* the style of the i-th entry of sub_types is i.                          *)
(***************************************************************************)
MaxRules == 3      \* longest list of sub_types

None == [some |-> FALSE, v |-> 0]

Some(v) == [some |-> TRUE, v |-> v]

Condition(key, values, white_list) ==
    [key |-> key, values |-> values, white_list |-> white_list]

\* Option<bool>: None for a key the feature does not carry, otherwise
\* !(white_list ^ contained).
Condition_apply(c, props) ==
    IF c.key \in DOMAIN props
    THEN LET contained == props[c.key] \in c.values
         IN [some |-> TRUE, b |-> ~((c.white_list /\ ~contained)
                                     \/ (~c.white_list /\ contained))]
    ELSE [some |-> FALSE, b |-> FALSE]

\* The loop leaves with false only on Some(false).
TypeConditions_apply(tc, props, zoom) ==
    IF tc.min_zoomlevel.some /\ zoom < tc.min_zoomlevel.v THEN FALSE
    ELSE \A i \in 1..Len(tc.conditions) :
             LET r == Condition_apply(tc.conditions[i], props)
             IN ~(r.some /\ ~r.b)

RECURSIVE LastMatch(_, _, _, _)
LastMatch(sub_types, props, zoom, i) ==
    IF i < 1 THEN [res |-> "None", style |-> 0]
    ELSE IF TypeConditions_apply(sub_types[i], props, zoom)
         THEN [res |-> "Some", style |-> sub_types[i].style]
    ELSE LastMatch(sub_types, props, zoom, i - 1)

\* LayerSorter::apply with its loop run from the back.
LayerSorter_applyLast(ls, f) ==
    IF ls.sub_types = <<>>
    THEN IF ls.fall_back.some THEN [res |-> "Some", style |-> ls.fall_back.style]
         ELSE [res |-> "None", style |-> 0]
    ELSE IF ~f.some THEN [res |-> "None", style |-> 0]
    ELSE LastMatch(ls.sub_types, f.map, f.zoom, Len(ls.sub_types))

RECURSIVE FirstMatch(_, _, _, _)
FirstMatch(sub_types, props, zoom, i) ==
    IF i > Len(sub_types) THEN [res |-> "None", style |-> 0]
    ELSE IF TypeConditions_apply(sub_types[i], props, zoom)
         THEN [res |-> "Some", style |-> sub_types[i].style]
    ELSE FirstMatch(sub_types, props, zoom, i + 1)

LayerSorter_apply(ls, f) ==
    IF ls.sub_types = <<>>
    THEN IF ls.fall_back.some THEN [res |-> "Some", style |-> ls.fall_back.style]
         ELSE [res |-> "None", style |-> 0]
    ELSE IF ~f.some THEN [res |-> "None", style |-> 0]
    ELSE FirstMatch(ls.sub_types, f.map, f.zoom, 1)

\* The call in MapData::from_reader, for one feature.
Apply ==
    /\ style.res = "none"
    /\ style' = LayerSorter_apply(sorter, feat)
    /\ UNCHANGED <<sorter, feat, cacheVars, worldVars, validVars, selVars, windVars, otherVars>>

Keys == {"kind", "tunnel"}

Values == {"a", "b"}

\* Lists of conditions with an optional minimum zoom, as style.json gives
\* them.
RuleShapes ==
    {[conditions |-> <<>>, min_zoomlevel |-> None],
     [conditions |-> <<Condition("kind", {"a"}, TRUE)>>, min_zoomlevel |-> None],
     [conditions |-> <<Condition("kind", {"a"}, FALSE)>>, min_zoomlevel |-> Some(5)],
     [conditions |-> <<Condition("kind", {"a", "b"}, TRUE),
                       Condition("tunnel", {"a"}, TRUE)>>,
      min_zoomlevel |-> None],
     [conditions |-> <<Condition("tunnel", {"b"}, FALSE)>>, min_zoomlevel |-> Some(5)],
     [conditions |-> <<Condition("kind", {}, TRUE)>>, min_zoomlevel |-> Some(5)]}

TypeConditions(shape, st) ==
    [conditions |-> shape.conditions, style |-> st,
     min_zoomlevel |-> shape.min_zoomlevel]

Sorters ==
    {[sub_types |-> [i \in 1..Len(q) |-> TypeConditions(q[i], i)],
      fall_back |-> fb] :
         q \in SeqsUpTo(RuleShapes, MaxRules),
         fb \in {[some |-> FALSE, style |-> 0], [some |-> TRUE, style |-> 0]}}

\* feat.properties.as_ref() and tile.z.
Features ==
    {[some |-> FALSE, map |-> NoProps, zoom |-> z] : z \in {4, 5}}
        \cup {[some |-> TRUE, map |-> m, zoom |-> z] :
                  m \in UNION {[K -> Values] : K \in SUBSET Keys}, z \in {4, 5}}

InitClassify ==
    /\ sorter \in Sorters
    /\ feat \in Features
    /\ style = NoStyle
    /\ disk = EmptyMem
    /\ getter = "none"
    /\ file_cache = {}
    /\ mem_cache = EmptyMem
    /\ last = NoCall
    /\ batch = NoBatch
    /\ loaded = {}
    /\ served = {}
    /\ WorldIdle
    /\ ValidIdle
    /\ SelIdle
    /\ WindIdle
    /\ OtherIdle

NextClassify == Apply

SpecClassify == InitClassify /\ [][NextClassify]_vars

(***************************************************************************)
(* Claims about the classifier (SpecClassify).                             *)
(***************************************************************************)
Applied == style.res # "none"

RuleIds == 1..Len(sorter.sub_types)

KeysOf(i) ==
    {sorter.sub_types[i].conditions[j].key :
         j \in 1..Len(sorter.sub_types[i].conditions)}

ZoomAdmits(i) ==
    \/ ~sorter.sub_types[i].min_zoomlevel.some
    \/ sorter.sub_types[i].min_zoomlevel.v <= feat.zoom

\* Every predicate of rule i reads a key the feature carries and is true:
\* (value in allowed set) <=> whitelist flag.
Satisfied(i) ==
    \A j \in 1..Len(sorter.sub_types[i].conditions) :
        LET c == sorter.sub_types[i].conditions[j]
        IN /\ c.key \in DOMAIN feat.map
           /\ (feat.map[c.key] \in c.values) <=> c.white_list

\* C16: a rule with a predicate on a key the feature does not carry does
\* not match the feature, so its style is never the one returned.
C16_AbsentKeyFailsRule ==
    \A i \in RuleIds :
        (Applied /\ feat.some /\ ~(KeysOf(i) \subseteq DOMAIN feat.map)) =>
            ~(style.res = "Some" /\ style.style = i)

\* C17: in a layer with conditional rules and a fallback style, a feature
\* that matches no conditional rule gets the fallback style; apply returns
\* None only when the layer has no fallback.  Stated for features that
\* carry every key the rules read, where matching is not in question.
C17_FallbackWhenNoRuleMatches ==
    (Applied /\ feat.some /\ sorter.sub_types # <<>>
        /\ (\A i \in RuleIds : KeysOf(i) \subseteq DOMAIN feat.map)
        /\ (\A i \in RuleIds : ~(ZoomAdmits(i) /\ Satisfied(i)))) =>
        /\ sorter.fall_back.some =>
               style.res = "Some" /\ style.style = sorter.fall_back.style
        /\ style.res = "None" => ~sorter.fall_back.some

Matching == {i \in RuleIds : ZoomAdmits(i) /\ Satisfied(i)}

Least(S) == CHOOSE i \in S : \A j \in S : i <= j

\* C18: for a feature that carries every key the rules of the layer read,
\* apply returns the style of the first rule in list order that the zoom
\* admits and whose predicates are all true, and None when there is none.
C18_FirstMatchWins ==
    (Applied /\ feat.some /\ sorter.sub_types # <<>>
        /\ \A i \in RuleIds : KeysOf(i) \subseteq DOMAIN feat.map) =>
        IF Matching = {} THEN style.res = "None"
        ELSE style.res = "Some" /\ style.style = Least(Matching)

C18_Witness ==
    /\ Applied
    /\ feat.some
    /\ \A i \in RuleIds : KeysOf(i) \subseteq DOMAIN feat.map
    /\ Len(sorter.sub_types) = 3
    /\ ~ZoomAdmits(1)
    /\ Matching = {2, 3}
    /\ sorter.sub_types[2].conditions # <<>>
    /\ style.res = "Some"
    /\ style.style = 2

\* C19: a rule with an empty predicate list matches every feature at or
\* above its minimum zoom, a feature without a property map included, so
\* the feature is classified with that rule's style or an earlier rule's.
C19_EmptyRuleMatchesAll ==
    \A i \in RuleIds :
        (Applied /\ sorter.sub_types[i].conditions = <<>> /\ ZoomAdmits(i)) =>
            /\ style.res = "Some"
            /\ style.style \in 1..i

(***************************************************************************)
(* Areas and their winding (src/src/map.rs).  A point keeps its tile       *)
(* coordinates as numerators over the extent of the layer, a power of two, *)
(* so a product of two coordinates is a numerator over the extent squared  *)
(* and rounding it to an f32 is rounding the numerator to 24 significant   *)
(* bits.                                                                   *)
(***************************************************************************)
MaxRing == 4       \* most points of a ring before it is closed

MantissaBits == 24 \* significant bits of an f32

Vector(x, y) == [x |-> x, y |-> y]

Abs(v) == IF v < 0 THEN -v ELSE v

\* The spacing of the f32 values around a numerator of this magnitude.
Ulp(a) ==
    CHOOSE q \in {2^e : e \in 0..6} :
        /\ a < q * 2^MantissaBits
        /\ q = 1 \/ a >= (q \div 2) * 2^MantissaBits

\* Round to nearest f32, ties to the even mantissa.
RoundF32(v) ==
    LET a == Abs(v)
        q == Ulp(a)
        lo == (a \div q) * q
        r == a - lo
        up == \/ 2 * r > q
              \/ 2 * r = q /\ (lo \div q) % 2 = 1
        m == IF up THEN lo + q ELSE lo
    IN IF v < 0 THEN -m ELSE m

\* signed_area_sum += (p_i.x * p_next.y) - (p_next.x * p_i.y), from the
\* first point on, every operation rounded.
RECURSIVE AreaTerms(_, _, _)
AreaTerms(path, i, signed_area_sum) ==
    IF i > Len(path) THEN signed_area_sum
    ELSE LET p_i == path[i]
             p_next == path[(i % Len(path)) + 1]
             term == RoundF32(RoundF32(p_i.x * p_next.y)
                                  - RoundF32(p_next.x * p_i.y))
         IN AreaTerms(path, i + 1, RoundF32(signed_area_sum + term))

get_signed_area_sum(path) == IF Len(path) < 3 THEN 0 ELSE AreaTerms(path, 1, 0)

reverse(path) == [i \in 1..Len(path) |-> path[Len(path) + 1 - i]]

\* outer is reversed on a negative sum, each inner ring on a positive one;
\* the result says whether anything was reversed.
enforce_winding(a) ==
    LET outer == IF get_signed_area_sum(a.outer) < 0 THEN reverse(a.outer)
                 ELSE a.outer
        inner == [i \in 1..Len(a.inner) |->
                     IF get_signed_area_sum(a.inner[i]) > 0
                     THEN reverse(a.inner[i]) ELSE a.inner[i]]
    IN [area |-> [outer |-> outer, inner |-> inner],
        had_flip |-> \/ get_signed_area_sum(a.outer) < 0
                     \/ \E i \in 1..Len(a.inner) :
                            get_signed_area_sum(a.inner[i]) > 0]

\* A call of enforce_winding on the area: the first is the one of the loop
\* over the areas of a layer in MapData::from_reader.  The area as it was
\* before the call is kept for comparison.
EnforceWinding ==
    /\ wound.calls < CountCap
    /\ \E r \in {enforce_winding(area)} :
          /\ area' = r.area
          /\ wound' = [pc |-> "done", had_flip |-> r.had_flip,
                       calls |-> wound.calls + 1, before |-> area]
    /\ UNCHANGED <<cacheVars, worldVars, validVars, selVars, clsVars, otherVars>>

\* Three corners of a tile, with a third point on its lower edge.
Points == {Vector(0, 0), Vector(1, 0), Vector(2, 0), Vector(0, 2)}

\* Three points of a straight road that leaves a tile of extent 4096
\* through its buffer.
BufferPoints == {Vector(4352, 1347), Vector(3699, 2418), Vector(1906, 4352)}

\* A ring of a geo_types Polygon is closed: its first point is repeated at
\* the end.
Close(q) ==
    IF q = <<>> \/ q[1] = q[Len(q)] THEN q ELSE Append(q, q[1])

Rings ==
    {Close(q) : q \in SeqsUpTo(Points, MaxRing) \cup SeqsUpTo(BufferPoints, MaxRing)}

Triangle == <<Vector(0, 0), Vector(2, 0), Vector(0, 2), Vector(0, 0)>>

Flat == <<Vector(0, 0), Vector(1, 0), Vector(2, 0), Vector(0, 0)>>

\* Interiors of a polygon: none, or two of three shapes.
Holes ==
    {<<>>} \cup {<<r1, r2>> : r1, r2 \in {Triangle, reverse(Triangle), Flat}}

\* What convert_polygon builds: the exterior and the interiors of a
\* polygon.
InitWind ==
    /\ area \in {[outer |-> o, inner |-> h] : o \in Rings, h \in Holes}
                 \cup {[outer |-> Triangle, inner |-> <<r>>] : r \in Rings}
    /\ wound = NoWound
    /\ disk = EmptyMem
    /\ getter = "none"
    /\ file_cache = {}
    /\ mem_cache = EmptyMem
    /\ last = NoCall
    /\ batch = NoBatch
    /\ loaded = {}
    /\ served = {}
    /\ WorldIdle
    /\ ValidIdle
    /\ SelIdle
    /\ ClsIdle
    /\ OtherIdle

NextWind == EnforceWinding

SpecWind == InitWind /\ [][NextWind]_vars

(***************************************************************************)
(* Claims about the winding of areas (SpecWind).                           *)
(***************************************************************************)
\* C20: once enforce_winding has run on an Area, every outer ring of at
\* least 3 points has a strictly positive signed area and every inner ring
\* of at least 3 points a strictly negative one, rings with collinear or
\* repeated points included.
C20_WindingStrict ==
    wound.pc = "done" =>
        /\ Len(area.outer) >= 3 => get_signed_area_sum(area.outer) > 0
        /\ \A i \in 1..Len(area.inner) :
               Len(area.inner[i]) >= 3 => get_signed_area_sum(area.inner[i]) < 0

\* C21: a second call of enforce_winding on an Area reverses nothing: it
\* answers false and leaves every ring as the first call left it; and no
\* call changes a ring of fewer than 3 points.
C21_SecondCallFlipsNothing ==
    /\ wound.calls >= 2 => ~wound.had_flip /\ area = wound.before
    /\ wound.calls >= 1 =>
          /\ Len(wound.before.outer) < 3 => area.outer = wound.before.outer
          /\ \A i \in 1..Len(area.inner) :
                 Len(wound.before.inner[i]) < 3 =>
                     area.inner[i] = wound.before.inner[i]

(***************************************************************************)
(* convert_geometry (src/src/map.rs): the geometry of a feature into the   *)
(* paths and areas of its layer.  A raw coordinate is an integer of the    *)
(* tile's grid; a converted coordinate is kept as the quotient it is, a    *)
(* numerator over a denominator (a zero denominator is the inf or NaN of   *)
(* a division by an extent of 0).  Rounding of the f32 quotient is         *)
(* monotonic and keeps 0 and 1, so it does not move a value across the     *)
(* ends of [0,1].                                                          *)
(***************************************************************************)
MaxPath == 2       \* most points of a line or ring of a geometry

\* One coordinate of Vector::from(p) / extent.
Quotient(raw, extent) == [num |-> raw, den |-> extent]

\* path.coords().map(|p| Vector::from(p) / extent).collect()
ScalePath(coords, extent) ==
    [i \in 1..Len(coords) |->
        Vector(Quotient(coords[i].x, extent), Quotient(coords[i].y, extent))]

convert_path(path, extent) == ScalePath(path, extent)

\* rings[1] is the exterior of the polygon, the others its interiors.
convert_polygon(rings, extent) ==
    [outer |-> ScalePath(rings[1], extent),
     inner |-> [i \in 1..(Len(rings) - 1) |-> ScalePath(rings[i + 1], extent)]]

\* What the call pushes to paths and to areas.
convert_geometry(g) ==
    CASE g.kind = "LineString" ->
            [paths |-> <<convert_path(g.rings[1], g.extent)>>, areas |-> <<>>]
      [] g.kind = "MultiLineString" ->
            [paths |-> [i \in 1..Len(g.rings) |->
                           convert_path(g.rings[i], g.extent)],
             areas |-> <<>>]
      [] g.kind = "Polygon" ->
            [paths |-> <<>>, areas |-> <<convert_polygon(g.rings, g.extent)>>]
      [] OTHER -> [paths |-> <<>>, areas |-> <<>>]

ConvertGeometry ==
    /\ conv.pc = "idle"
    /\ \E r \in {convert_geometry(geom)} :
          conv' = [pc |-> "done", paths |-> r.paths, areas |-> r.areas]
    /\ UNCHANGED <<geom, cacheVars, worldVars, validVars, selVars, clsVars,
                   windVars, layerVars, videoVars, mainVars>>

\* Grid coordinates inside a tile of extent 2, in its buffer and beyond.
RawCoords == {-1, 1, 3}

RawPoints == {Vector(x, y) : x, y \in RawCoords}

RawLines == SeqsUpTo(RawPoints, MaxPath) \ {<<>>}

\* meta.extent, a u32.
Extents == {0, 1, 2}

RawHole == <<Vector(0, 0), Vector(3, 0), Vector(0, 0)>>

Geometries(lines) ==
    {[kind |-> k, rings |-> <<l>>, extent |-> e] :
        k \in {"LineString", "Point"}, l \in lines, e \in Extents}
    \cup {[kind |-> "MultiLineString", rings |-> <<l, RawHole>>, extent |-> e] :
            l \in lines, e \in Extents}
    \cup {[kind |-> "Polygon", rings |-> <<l>> \o h, extent |-> e] :
            l \in lines, h \in {<<>>, <<RawHole>>}, e \in Extents}

InitConvert ==
    /\ geom \in Geometries(RawLines)
    /\ conv = NoConv
    /\ disk = EmptyMem
    /\ getter = "none"
    /\ file_cache = {}
    /\ mem_cache = EmptyMem
    /\ last = NoCall
    /\ batch = NoBatch
    /\ loaded = {}
    /\ served = {}
    /\ WorldIdle
    /\ ValidIdle
    /\ SelIdle
    /\ ClsIdle
    /\ WindIdle
    /\ LayerIdle
    /\ VideoIdle
    /\ MainIdle

NextConvert == ConvertGeometry

SpecConvert == InitConvert /\ [][NextConvert]_vars

(***************************************************************************)
(* Claims about the conversion of geometry (SpecConvert).                  *)
(***************************************************************************)
\* The converted lines and rings, in the order of the raw ones.
Converted ==
    IF conv.areas # <<>>
    THEN <<conv.areas[1].outer>> \o conv.areas[1].inner
    ELSE conv.paths

Kept == conv.pc = "done" /\ geom.kind # "Point"

EqualsQuotient(c, raw) == c.num * geom.extent = raw * c.den

InUnit(c) == c.den > 0 /\ 0 <= c.num /\ c.num <= c.den

\* C22: every coordinate of every path and area ring produced from a layer
\* of extent E equals the raw coordinate divided by E and lies in [0,1] on
\* both axes, whatever raw coordinates the feature carries.
C22_NormalizedIntoUnitSquare ==
    Kept =>
        /\ Len(Converted) = Len(geom.rings)
        /\ \A i \in 1..Len(geom.rings) : \A j \in 1..Len(geom.rings[i]) :
              /\ EqualsQuotient(Converted[i][j].x, geom.rings[i][j].x)
              /\ EqualsQuotient(Converted[i][j].y, geom.rings[i][j].y)
              /\ InUnit(Converted[i][j].x)
              /\ InUnit(Converted[i][j].y)


(***************************************************************************)
(* MapData::from_reader (src/src/map.rs): the layers of a payload, looked  *)
(* up in the pruned style list and sorted.  A layer of the style keeps its *)
(* name, whether each of its sub types paints, and whether it has a fall   *)
(* back; a layer of a MapData keeps its id and, in place of its paths and  *)
(* areas, the position of the payload layer they came from.                *)
(***************************************************************************)
MaxLayers == 3     \* most layers of a tile payload

U8Range == 256     \* values of a u8

LayerSorter(name, sub_types, fall_back) ==
    [layer_name |-> name, sub_types |-> sub_types, fall_back |-> fall_back]

is_empty(ls) ==
    /\ \A i \in 1..Len(ls.sub_types) :
           ~(ls.sub_types[i].fill \/ ls.sub_types[i].stroke)
    /\ ~ls.fall_back

NonEmpty(ls) == ~is_empty(ls)

retain_non_empty(st) == SelectSeq(st, NonEmpty)

\* find_map over enumerate(): the first position with that name, as u8.
get_layer_idx(st, name) ==
    IF \E i \in 1..Len(st) : st[i].layer_name = name
    THEN Some(((CHOOSE i \in 1..Len(st) :
                    /\ st[i].layer_name = name
                    /\ \A j \in 1..(i - 1) : st[j].layer_name # name) - 1)
              % U8Range)
    ELSE None

\* The loop over the layer metadata: a name the style lacks is passed over.
RECURSIVE PushLayers(_, _, _)
PushLayers(st, names, k) ==
    IF k > Len(names) THEN <<>>
    ELSE LET layer_idx == get_layer_idx(st, names[k])
         IN IF ~layer_idx.some THEN PushLayers(st, names, k + 1)
            ELSE <<[id |-> layer_idx.v, from |-> k]>>
                     \o PushLayers(st, names, k + 1)

\* One step of a stable sort: after every layer that is not greater.
RECURSIVE InsertById(_, _)
InsertById(q, l) ==
    IF q = <<>> THEN <<l>>
    ELSE IF l.id < q[1].id THEN <<l>> \o q
    ELSE <<q[1]>> \o InsertById(Tail(q), l)

\* layers.sort_by(|a, b| a.id.cmp(&b.id))
RECURSIVE sort_by(_)
sort_by(q) ==
    IF q = <<>> THEN <<>>
    ELSE InsertById(sort_by(SubSeq(q, 1, Len(q) - 1)), q[Len(q)])

\* The layers in the order of the payload.
from_readerUnsorted(st, names, readOk) ==
    IF ~readOk THEN [res |-> "Err", layers |-> <<>>]
    ELSE [res |-> "Ok", layers |-> PushLayers(st, names, 1)]

\* readOk: get_layer_metadata and get_features answer Ok.
from_reader(st, names, readOk) ==
    IF ~readOk THEN [res |-> "Err", layers |-> <<>>]
    ELSE [res |-> "Ok", layers |-> sort_by(PushLayers(st, names, 1))]

FromReader ==
    /\ mapdata.pc = "idle"
    /\ \E readOk \in BOOLEAN :
       \E r \in {from_reader(sorters, payload, readOk)} :
          mapdata' = [pc |-> "done", res |-> r.res, layers |-> r.layers]
    /\ UNCHANGED <<payload, sorters, cacheVars, worldVars, validVars, selVars,
                   clsVars, windVars, convVars, videoVars, mainVars>>

LayerNames == {"land", "water", "streets", "pois"}

Paints == [fill |-> TRUE, stroke |-> FALSE]

Blank == [fill |-> FALSE, stroke |-> FALSE]

\* Style files: one that paints three layers, one whose water layer paints
\* nothing, one that names a layer twice.
StyleFiles ==
    {<<LayerSorter("land", <<>>, TRUE), LayerSorter("water", <<Paints>>, FALSE),
       LayerSorter("streets", <<Blank, Paints>>, FALSE)>>,
     <<LayerSorter("land", <<>>, TRUE), LayerSorter("water", <<Blank>>, FALSE),
       LayerSorter("streets", <<Paints>>, FALSE)>>,
     <<LayerSorter("streets", <<Paints>>, FALSE), LayerSorter("pois", <<>>, FALSE),
       LayerSorter("land", <<>>, TRUE), LayerSorter("streets", <<>>, TRUE)>>}

InitLayers ==
    /\ payload \in SeqsUpTo(LayerNames, MaxLayers)
    /\ sorters \in {retain_non_empty(st) : st \in StyleFiles}
    /\ mapdata = NoMapData
    /\ disk = EmptyMem
    /\ getter = "none"
    /\ file_cache = {}
    /\ mem_cache = EmptyMem
    /\ last = NoCall
    /\ batch = NoBatch
    /\ loaded = {}
    /\ served = {}
    /\ WorldIdle
    /\ ValidIdle
    /\ SelIdle
    /\ ClsIdle
    /\ WindIdle
    /\ ConvIdle
    /\ VideoIdle
    /\ MainIdle

NextLayers == FromReader

SpecLayers == InitLayers /\ [][NextLayers]_vars

(***************************************************************************)
(* Claims about the layers of a MapData (SpecLayers).                      *)
(***************************************************************************)
Built == mapdata.pc = "done" /\ mapdata.res = "Ok"

StyleNames == {sorters[i].layer_name : i \in 1..Len(sorters)}

\* The classifier bucket of a name: the first place of the style list that
\* carries it, counted from 0.
Bucket(name) ==
    (CHOOSE i \in 1..Len(sorters) :
        /\ sorters[i].layer_name = name
        /\ \A j \in 1..(i - 1) : sorters[j].layer_name # name) - 1

\* C23: the layers of a MapData built by from_reader are sorted by
\* ascending bucket index whatever the order of the payload, one for each
\* payload layer whose name the pruned style list carries and none for any
\* other.
C23_LayersSortedByBucket ==
    Built =>
        /\ \A i, j \in 1..Len(mapdata.layers) :
               i < j => mapdata.layers[i].id <= mapdata.layers[j].id
        /\ \A i, j \in 1..Len(mapdata.layers) :
               i # j => mapdata.layers[i].from # mapdata.layers[j].from
        /\ {mapdata.layers[i].from : i \in 1..Len(mapdata.layers)}
               = {k \in 1..Len(payload) : payload[k] \in StyleNames}
        /\ \A i \in 1..Len(mapdata.layers) :
               mapdata.layers[i].id = Bucket(payload[mapdata.layers[i].from])

\* A payload that carries its layers in descending bucket order, with a
\* layer the pruned style lacks, has been built.
C23_Witness ==
    /\ Built
    /\ Len(mapdata.layers) = 2
    /\ Len(payload) = 3
    /\ \E k \in 1..Len(payload) : payload[k] \notin StyleNames
    /\ \E k1, k2 \in 1..Len(payload) :
          /\ k1 < k2
          /\ payload[k1] \in StyleNames
          /\ payload[k2] \in StyleNames
          /\ Bucket(payload[k1]) > Bucket(payload[k2])

(***************************************************************************)
(* Claims about the tiers of load_tile (Spec).                             *)
(***************************************************************************)
\* A step that is a call of load_tile(t), on its own or inside load_tiles.
CallsLoadTile(t) ==
    last' # last /\ last'.op = "load_tile" /\ last'.tile = t

\* C24: a load_tile of an address that is not in mem_cache, is in
\* file_cache and whose file reads and decodes puts it into mem_cache and
\* returns Ok, without a network request, without writing the disk and
\* without changing file_cache.
C24_DiskHit ==
    [][\A t \in Tiles :
          (/\ CallsLoadTile(t)
           /\ t \notin DOMAIN mem_cache
           /\ t \in file_cache
           /\ to_path[t] \in DOMAIN disk
           /\ Decodes(disk[to_path[t]])
           /\ last'.read = "ok")
          => /\ t \in DOMAIN mem_cache'
             /\ last'.res = "Ok"
             /\ last'.net = 0
             /\ last'.writes = 0
             /\ disk' = disk
             /\ file_cache' = file_cache]_vars

\* A call was answered from the disk: the address was read from its file
\* and is now in memory.
C24_Witness ==
    /\ last.op = "load_tile"
    /\ last.how = "disk"
    /\ last.read = "ok"
    /\ last.tile \in DOMAIN mem_cache

\* C25: on a getter built by new, every address in mem_cache is also in
\* file_cache.
C25_MemWithinFile ==
    getter = "live" => DOMAIN mem_cache \subseteq file_cache

\* Both addresses are in memory, the last of them taken from the disk.
C25_Witness ==
    /\ getter = "live"
    /\ DOMAIN mem_cache = Tiles
    /\ last.op = "load_tile"
    /\ last.how = "disk"

\* C26: a load_tile that returns Err leaves the cache directory as it was:
\* no new file and no rewritten file for the address.
C26_FailedLoadLeavesDisk ==
    [][\A t \in Tiles :
          CallsLoadTile(t) /\ last'.res = "Err" => disk' = disk]_vars

(***************************************************************************)
(* Claims about the fade of two levels (SpecSelect).                       *)
(***************************************************************************)
\* C27: whenever get_tiles_at selects two levels for a frame, at negative
\* zooms as well, the zoom.fract() the frame hands to the fade functions
\* lies in [FADE_MIN, FADE_MAX]: their assertion does not fire and both
\* opacities are in [0,1].
C27_FractInsideFadeBand ==
    (chosen.op = "render_background" /\ chosen.res = "ok" /\ chosen.val.n = 2) =>
        /\ FADE_MIN <= Fract(scene.zoom)
        /\ Fract(scene.zoom) <= FADE_MAX
        /\ fade.res = "ok"
        /\ fade.a \in 0..FadeDen
        /\ fade.b \in 0..FadeDen

(***************************************************************************)
(* make_video and Frame::render (src/src/draw.rs): the calling thread      *)
(* loads the tiles of every frame through World::load_tiles_at, then a     *)
(* pool of threads renders the frames, each frame under a read lock.       *)
(***************************************************************************)
MainThread == 1    \* the thread that runs make_video, as a worker of the lock

\* tiles.iter().map(|tile| map.get_tile(*tile)).collect::<Option<Vec<_>>>()
AllLoaded(tiles, mem) ==
    \A k \in 1..Len(tiles) : Lookup(mem, tiles[k]).res = "Some"

\* One level of render_background.  With one level a missing tile is
\* reported and the function returns; with two levels it is reported and
\* the expect("checked above") that follows panics.
render_level(n, tiles, mem) ==
    IF AllLoaded(tiles, mem) THEN "drawn"
    ELSE IF n = 1 THEN "skipped" ELSE "panic"

\* Frame::render up to render_background, for frame i.
RStart(r, i) ==
    /\ rjob[r].pc = "idle"
    /\ i \in 1..Len(frames)
    /\ rjob' = [rjob EXCEPT ![r] = [pc |-> "start", frame |-> i, out |-> "none"]]
    /\ UNCHANGED <<cacheVars, worldVars, stillVars, frames>>

\* get_tiles_at, then WORLD.map.read().
RRead(r) ==
    /\ rjob[r].pc = "start"
    /\ CanRead(lock)
    /\ lock' = [lock EXCEPT !.readers = @ \cup {r}]
    /\ rjob' = [rjob EXCEPT ![r].pc = "a"]
    /\ UNCHANGED <<cacheVars, wpc, wjob, rpc, fetches, received, stillVars,
                   frames, video>>

\* The lookups and the drawing of one level, under the read lock.
RLevel(r) ==
    /\ rjob[r].pc \in {"a", "b"}
    /\ \E sel \in {frames[rjob[r].frame]} :
       \E o \in {render_level(sel.n, IF rjob[r].pc = "a" THEN sel.a ELSE sel.b,
                              mem_cache)} :
          rjob' = [rjob EXCEPT ![r] =
                      IF o = "drawn" /\ rjob[r].pc = "a" /\ sel.n = 2
                      THEN [@ EXCEPT !.pc = "b"]
                      ELSE [@ EXCEPT !.pc = "exit", !.out = o]]
    /\ UNCHANGED <<cacheVars, worldVars, stillVars, frames, video>>

\* The read guard is dropped, by the return or by the unwinding panic.
RExit(r) ==
    /\ rjob[r].pc = "exit"
    /\ lock' = [lock EXCEPT !.readers = @ \ {r}]
    /\ rjob' = [rjob EXCEPT ![r].pc =
                   IF rjob[r].out = "panic" THEN "dead" ELSE "rendered"]
    /\ UNCHANGED <<cacheVars, wpc, wjob, rpc, fetches, received, stillVars,
                   frames, video>>

\* make_video up to the loading loop.  tmpOk: the tmp directory is set up.
VStart ==
    /\ video.pc = "idle"
    /\ video.res = "none"
    /\ \E tmpOk \in BOOLEAN :
          video' = IF tmpOk THEN [video EXCEPT !.pc = "loading"]
                   ELSE [video EXCEPT !.pc = "done", !.res = "Err_tmp"]
    /\ UNCHANGED <<cacheVars, worldVars, stillVars, frames, rjob>>

\* A loading loop that goes on to the next frame after an Err.
OnAnswerNoAbort(v, ok) ==
    IF ok THEN v ELSE [v EXCEPT !.next = @ + 1]

\* WORLD.load_tiles_at(frame.scene_pos)?: an Err leaves make_video.
OnAnswer(v, ok) ==
    IF ok THEN v ELSE [v EXCEPT !.pc = "done", !.res = "Err_load"]

\* for frame in &frames { WORLD.load_tiles_at(frame.scene_pos)?; }
VLoadAcquire ==
    /\ video.pc = "loading"
    /\ video.next <= Len(frames)
    /\ WAcquire(MainThread, frames[video.next])
    /\ UNCHANGED <<stillVars, videoVars>>

VLoad ==
    /\ video.pc = "loading"
    /\ WLoad(MainThread)
    /\ UNCHANGED <<stillVars, videoVars>>

VAnswer ==
    /\ video.pc = "loading"
    /\ WAnswer(MainThread)
    /\ video' = OnAnswer(video, wpc'[MainThread] = "hold")
    /\ UNCHANGED <<stillVars, frames, rjob>>

VRelease ==
    /\ video.pc = "loading"
    /\ WRelease(MainThread)
    /\ video' = [video EXCEPT !.next = @ + 1, !.ok = @ \cup {video.next}]
    /\ UNCHANGED <<stillVars, frames, rjob>>

\* frames.into_iter().enumerate().par_bridge().for_each(...) begins.
VRender ==
    /\ video.pc = "loading"
    /\ video.next > Len(frames)
    /\ wpc[MainThread] = "idle"
    /\ video' = [video EXCEPT !.pc = "rendering", !.todo = 1..Len(frames)]
    /\ UNCHANGED <<cacheVars, worldVars, stillVars, frames, rjob>>

\* A thread of the pool takes a frame.
VPick(r, i) ==
    /\ video.pc = "rendering"
    /\ i \in video.todo
    /\ \A q \in Threads : rjob[q].pc # "dead"
    /\ RStart(r, i)
    /\ video' = [video EXCEPT !.todo = @ \ {i}]

\* File::create(tmp_path.join(...)).unwrap() and the png encoder.
VSave(r) ==
    /\ video.pc = "rendering"
    /\ rjob[r].pc = "rendered"
    /\ \E fileOk \in BOOLEAN :
          rjob' = [rjob EXCEPT ![r] =
                      IF fileOk THEN [@ EXCEPT !.pc = "idle"]
                      ELSE [@ EXCEPT !.pc = "dead", !.out = "io_panic"]]
    /\ UNCHANGED <<cacheVars, worldVars, stillVars, frames, video>>

\* for_each returns, or hands on the panic of a thread; then ffmpeg and
\* the removal of the tmp directory.
VJoin ==
    /\ video.pc = "rendering"
    /\ \A r \in Threads : rjob[r].pc \in {"idle", "dead"}
    /\ video.todo = {} \/ \E r \in Threads : rjob[r].pc = "dead"
    /\ IF \E r \in Threads : rjob[r].pc = "dead"
       THEN video' = [video EXCEPT !.pc = "done", !.res = "panic"]
       ELSE \E encodeOk \in BOOLEAN :
               video' = [video EXCEPT !.pc = "done",
                            !.res = IF encodeOk THEN "Ok" ELSE "Err_encode"]
    /\ UNCHANGED <<cacheVars, worldVars, stillVars, frames, rjob>>

TileOne == TileDescr(7, 66, 44)

TileTwo == TileDescr(76, 6, 44)

\* What get_tiles_at answers for the frames of a video: one level, two
\* levels, one level of another tile.
FrameChoices ==
    {One(<<TileOne>>), Two(<<TileOne>>, <<TileTwo>>), One(<<TileTwo>>)}

\* Cache directories at the start of a video: empty, with a good file,
\* with a corrupt file and a good one.
VideoDisks ==
    {d \in Disks : \/ d = <<>>
                   \/ DOMAIN d = {to_path[TileOne]} /\ d[to_path[TileOne]] = "mvtA"
                   \/ /\ DOMAIN d = {to_path[t] : t \in Tiles}
                      /\ d[to_path[TileOne]] = "junk"
                      /\ d[to_path[TileTwo]] = "mvtB"}

InitVideo ==
    /\ disk \in VideoDisks
    /\ getter = "live"
    /\ file_cache = ScanTiles(disk)
    /\ mem_cache = EmptyMem
    /\ last = NoCall
    /\ batch = NoBatch
    /\ loaded = {}
    /\ served = {}
    /\ WorldIdle
    /\ ValidIdle
    /\ SelIdle
    /\ ClsIdle
    /\ WindIdle
    /\ ConvIdle
    /\ LayerIdle
    /\ frames \in SeqsUpTo(FrameChoices, MaxFrames)
    /\ video = NoVideo
    /\ rjob = [r \in Threads |-> NoJob]
    /\ MainIdle

NextVideo ==
    \/ VStart
    \/ VLoadAcquire
    \/ VLoad
    \/ VAnswer
    \/ VRelease
    \/ VRender
    \/ \E r \in Threads, i \in 1..MaxFrames : VPick(r, i)
    \/ \E r \in Threads : RRead(r)
    \/ \E r \in Threads : RLevel(r)
    \/ \E r \in Threads : RExit(r)
    \/ \E r \in Threads : VSave(r)
    \/ VJoin

SpecVideo == InitVideo /\ [][NextVideo]_vars

(***************************************************************************)
(* Frame::render on its own, over a getter that holds any of the tiles.    *)
(***************************************************************************)
\* The getter after load_tile has returned Ok for the addresses of S.
InitRender ==
    /\ \E S \in SUBSET Tiles :
          /\ disk = [n \in {to_path[t] : t \in S} |-> "mvtA"]
          /\ file_cache = S
          /\ mem_cache = [t \in S |-> Decode(t, "mvtA")]
          /\ loaded = S
          /\ served = S
    /\ getter = "live"
    /\ last = NoCall
    /\ batch = NoBatch
    /\ WorldIdle
    /\ ValidIdle
    /\ SelIdle
    /\ ClsIdle
    /\ WindIdle
    /\ ConvIdle
    /\ LayerIdle
    /\ frames \in {<<sel>> : sel \in OneOrTwo}
    /\ video = NoVideo
    /\ rjob = [r \in Threads |-> NoJob]
    /\ MainIdle

\* A call of Frame::render that no load_tiles_at went before.
Render(r) ==
    /\ rjob[r].out = "none"
    /\ RStart(r, 1)
    /\ UNCHANGED video

NextRender ==
    \/ \E r \in Threads : Render(r)
    \/ \E r \in Threads : RRead(r)
    \/ \E r \in Threads : RLevel(r)
    \/ \E r \in Threads : RExit(r)

SpecRender == InitRender /\ [][NextRender]_vars

(***************************************************************************)
(* Claims about rendering (SpecRender, SpecVideo).                         *)
(***************************************************************************)
\* C28: render_background does not panic when a tile of the view is
\* missing from mem_cache, with one level or with two: it reports the
\* tile and returns without drawing.
C28_MissingTileNeverPanics ==
    \A r \in Threads : rjob[r].out # "panic"

FrameTiles(i) == Range(frames[i].a) \cup Range(frames[i].b)

Rendering(r) == rjob[r].pc # "idle" \/ rjob[r].out # "none"

\* C29: in make_video no frame is rendered before load_tiles_at has
\* returned Ok for every frame, an Err of a load ends the video with no
\* frame rendered, and while frames are rendered every tile of every frame
\* is in mem_cache, so that no lookup of a render thread misses.
C29_AllLoadedBeforeRender ==
    /\ \A r \in Threads :
          Rendering(r) =>
              /\ video.ok = 1..Len(frames)
              /\ \A i \in 1..Len(frames) : FrameTiles(i) \subseteq DOMAIN mem_cache
              /\ rjob[r].out \notin {"skipped", "panic"}
    /\ video.res = "Err_load" => \A r \in Threads : ~Rendering(r)

\* Two threads are inside render_background at once, on frames whose
\* tiles came from the network and from the disk.
C29_Witness ==
    /\ rjob[1].pc \in {"a", "b"}
    /\ rjob[2].pc \in {"a", "b"}
    /\ rjob[1].frame # rjob[2].frame
    /\ \E t \in Tiles : fetches[t] # <<>>

(***************************************************************************)
(* The loop of main (src/src/main.rs): on every line read from stdin the   *)
(* input directory is scanned, every .txt file that parses is rendered     *)
(* unless its hash and its output file say that it already was, and the    *)
(* hash of a file is recorded when its render returns Ok.  Between the     *)
(* steps of the loop the user edits input files and removes output files.  *)
(***************************************************************************)
InPath(stem, ext) == [stem |-> stem, ext |-> ext]

Paths == {InPath("a", "txt"), InPath("b", "txt"), InPath("notes", "md")}

\* Contents of an input file: two descriptions of the video "clip" and a
\* text parse::from_path rejects.
ClipA == [parses |-> TRUE, name |-> "clip", text |-> "zoom 4"]

ClipB == [parses |-> TRUE, name |-> "clip", text |-> "zoom 5"]

Garbage == [parses |-> FALSE, name |-> "none", text |-> "?"]

Contents == {ClipA, ClipB, Garbage}

\* hex::encode(Sha256::digest(&buf)): a digest per content, no two alike.
hash_file(content) ==
    CASE content = ClipA -> "sha256_a"
      [] content = ClipB -> "sha256_b"
      [] OTHER -> "sha256_g"

\* r.get_file_name(): OUT_PATH joined with the name of the renderable.
get_file_name(content) == <<content.name, "mp4">>

\* How make_file can end: with Ok or Err, the output file written or not.
\* make_video returns Ok whatever ffmpeg's exit status, and Err when the
\* removal of the tmp directory fails after ffmpeg has run.
RenderOutcomes == [ok : BOOLEAN, wrote : BOOLEAN]

NotSeen ==
    [res |-> "none", name |-> "none", same |-> TRUE, matched |-> FALSE,
     again |-> FALSE]

\* The test of lines 337-343.
Unchanged(h, outs, f, content) ==
    /\ f \in DOMAIN h
    /\ hash_file(content) = h[f]
    /\ get_file_name(content) \in outs

\* process_renderable that records the hash after an Err as well.
RecordAlways(h, f, content, ok) == Insert(h, f, hash_file(content))

\* process_renderable: FILE_HASHES.insert(path, hash_file(&path)) on Ok.
Record(h, f, content, ok) ==
    IF ok THEN Insert(h, f, hash_file(content)) ELSE h

\* io::stdin().read_line: "end\n" and an error leave the loop, after which
\* FILE_HASHES is written to HASHES_PATH; any other line starts a scan.
ReadLine ==
    /\ loop.pc = "wait"
    /\ \E input \in {"\n", "end\n", "err"} :
          loop' = IF input = "\n"
                  THEN [pc |-> "scan", todo |-> Paths, cur |-> "none"]
                  ELSE [pc |-> "ended", todo |-> {}, cur |-> "none"]
    /\ UNCHANGED <<inputs, hashes, outputs, seen>>
    /\ UNCHANGED <<cacheVars, worldVars, validVars, selVars, clsVars, windVars,
                   convVars, layerVars, videoVars>>

\* The body of the for loop for one directory entry, up to the call of
\* process_renderable.  entryOk: read_dir yields the entry without error.
Examine(f) ==
    /\ loop.pc = "scan"
    /\ f \in loop.todo
    /\ \E entryOk \in BOOLEAN :
          IF ~entryOk \/ f.ext # "txt" \/ ~inputs[f].parses
          THEN /\ loop' = [loop EXCEPT !.todo = @ \ {f}]
               /\ seen' = [seen EXCEPT ![f] = [NotSeen EXCEPT !.res = "rejected"]]
          ELSE IF Unchanged(hashes, outputs, f, inputs[f])
          THEN /\ loop' = [loop EXCEPT !.todo = @ \ {f}]
               /\ seen' = [seen EXCEPT ![f] = [NotSeen EXCEPT !.res = "skipped"]]
          ELSE /\ loop' = [pc |-> "render", todo |-> loop.todo \ {f}, cur |-> f.stem]
               /\ seen' = [seen EXCEPT ![f] =
                              [res |-> "rendering", name |-> inputs[f].name,
                               same |-> TRUE,
                               matched |-> /\ f \in DOMAIN hashes
                                           /\ hashes[f] = hash_file(inputs[f]),
                               again |-> seen[f].res = "Err" /\ seen[f].same]]
    /\ UNCHANGED <<inputs, hashes, outputs>>
    /\ UNCHANGED <<cacheVars, worldVars, validVars, selVars, clsVars, windVars,
                   convVars, layerVars, videoVars>>

\* process_renderable: make_file of what was parsed, then the hash of the
\* file as it is by then.
ProcessRenderable(f) ==
    /\ loop.pc = "render"
    /\ loop.cur = f.stem
    /\ \E o \in RenderOutcomes :
          /\ outputs' = IF o.wrote
                        THEN outputs \cup {<<seen[f].name, "mp4">>}
                        ELSE outputs
          /\ hashes' = Record(hashes, f, inputs[f], o.ok)
          /\ seen' = [seen EXCEPT ![f].res = IF o.ok THEN "Ok" ELSE "Err"]
    /\ loop' = [loop EXCEPT !.pc = "scan", !.cur = "none"]
    /\ UNCHANGED inputs
    /\ UNCHANGED <<cacheVars, worldVars, validVars, selVars, clsVars, windVars,
                   convVars, layerVars, videoVars>>

\* The for loop is through: back to read_line.
ScanEnd ==
    /\ loop.pc = "scan"
    /\ loop.todo = {}
    /\ loop' = [loop EXCEPT !.pc = "wait"]
    /\ UNCHANGED <<inputs, hashes, outputs, seen>>
    /\ UNCHANGED <<cacheVars, worldVars, validVars, selVars, clsVars, windVars,
                   convVars, layerVars, videoVars>>

\* The user saves another text to an input file.
Edit(f, content) ==
    /\ loop.pc # "ended"
    /\ f.ext = "txt"
    /\ content # inputs[f]
    /\ inputs' = [inputs EXCEPT ![f] = content]
    /\ seen' = [seen EXCEPT ![f].same = FALSE]
    /\ UNCHANGED <<hashes, outputs, loop>>
    /\ UNCHANGED <<cacheVars, worldVars, validVars, selVars, clsVars, windVars,
                   convVars, layerVars, videoVars>>

\* The user removes an output file.
DeleteOutput(n) ==
    /\ loop.pc = "wait"
    /\ n \in outputs
    /\ outputs' = outputs \ {n}
    /\ UNCHANGED <<inputs, hashes, loop, seen>>
    /\ UNCHANGED <<cacheVars, worldVars, validVars, selVars, clsVars, windVars,
                   convVars, layerVars, videoVars>>

InitMain ==
    /\ disk = EmptyMem
    /\ getter = "none"
    /\ file_cache = {}
    /\ mem_cache = EmptyMem
    /\ last = NoCall
    /\ batch = NoBatch
    /\ loaded = {}
    /\ served = {}
    /\ WorldIdle
    /\ ValidIdle
    /\ SelIdle
    /\ ClsIdle
    /\ WindIdle
    /\ ConvIdle
    /\ LayerIdle
    /\ VideoIdle
    /\ inputs \in {i \in [Paths -> Contents] : i[InPath("notes", "md")] = Garbage}
    /\ hashes = <<>>
    /\ outputs = {}
    /\ loop = [pc |-> "wait", todo |-> {}, cur |-> "none"]
    /\ seen = [f \in Paths |-> NotSeen]

NextMain ==
    \/ ReadLine
    \/ \E f \in Paths : Examine(f)
    \/ \E f \in Paths : ProcessRenderable(f)
    \/ ScanEnd
    \/ \E f \in Paths, content \in Contents : Edit(f, content)
    \/ \E n \in {get_file_name(c) : c \in Contents} : DeleteOutput(n)

SpecMain == InitMain /\ [][NextMain]_vars

\* f is examined in this step and passes the tests of entry, extension and
\* parse.
Examined(f) ==
    /\ loop.pc = "scan"
    /\ f \in loop.todo
    /\ f \notin loop'.todo
    /\ seen'[f].res \in {"skipped", "rendering"}

SkippedExactlyWhenUnchanged ==
    \A f \in Paths :
        Examined(f) =>
            (seen'[f].res = "skipped" <=> Unchanged(hashes, outputs, f, inputs[f]))

RecordedOnlyAfterOk ==
    hashes' # hashes =>
        \E f \in Paths :
            /\ loop.pc = "render"
            /\ loop.cur = f.stem
            /\ seen'[f].res = "Ok"
            /\ hashes' = Insert(hashes, f, hash_file(inputs[f]))

\* C30: in the main loop a file is skipped exactly when FILE_HASHES holds
\* the hash of its current content and its output file exists, a hash is
\* recorded only after a render of the path returned Ok, and a file whose
\* render failed and that was not edited since is not skipped the next time
\* it is examined.
C30_FailedRenderedAgain ==
    [][/\ SkippedExactlyWhenUnchanged
       /\ RecordedOnlyAfterOk
       /\ \A f \in Paths :
             (Examined(f) /\ seen[f].res = "Err" /\ seen[f].same)
                 => seen'[f].res = "rendering"]_vars

\* C30 amended: as C30, the last part for a file whose failed render was
\* started while FILE_HASHES did not hold the hash of its content.
C30_FailedRenderedAgainUnlessRecorded ==
    [][/\ SkippedExactlyWhenUnchanged
       /\ RecordedOnlyAfterOk
       /\ \A f \in Paths :
             (Examined(f) /\ seen[f].res = "Err" /\ seen[f].same
                          /\ ~seen[f].matched)
                 => seen'[f].res = "rendering"]_vars

\* A file whose render failed with no hash of its content recorded, and that
\* was not edited since, is being rendered again.
C30_Witness ==
    \E f \in Paths :
        /\ loop.pc = "render"
        /\ loop.cur = f.stem
        /\ seen[f].res = "rendering"
        /\ seen[f].again
        /\ ~seen[f].matched

====
